---------------------------- MODULE Spec2Model ----------------------------
(***************************************************************************)
(* The desktop shell's backend-facing layer (gui/src-tauri/src): the data  *)
(* contracts and the transport client of api.rs, and the command surface   *)
(* of commands.rs, as a state machine of command invocations.              *)
(*                                                                         *)
(* Text is a sequence of one-character strings wherever the code looks     *)
(* inside it (queries, batch ids, method names, JSON strings); a URL is a  *)
(* sequence of lexical tokens (origin, path, query text, argument text).   *)
(***************************************************************************)
EXTENDS Integers, Sequences, FiniteSets, TLC

(***************************************************************************)
(* Bounds of the model.                                                    *)
(***************************************************************************)
\* invocations that may be in flight at once in SpecConc
MaxInFlight == 2
\* the wall clock runs from 0 to MaxClock
MaxClock == 2

(***************************************************************************)
(* Option<T>                                                               *)
(***************************************************************************)
None == [some |-> FALSE]
Some(x) == [some |-> TRUE, v |-> x]

(***************************************************************************)
(* str: trim, to_lowercase, to_uppercase, starts_with                      *)
(***************************************************************************)
White == {" ", "\t", "\n"}

LowerOf ==
  [A |-> "a", B |-> "b", C |-> "c", D |-> "d", E |-> "e", F |-> "f",
   G |-> "g", L |-> "l", O |-> "o", P |-> "p", R |-> "r", S |-> "s",
   T |-> "t", U |-> "u", H |-> "h"]

UpperOf ==
  [a |-> "A", b |-> "B", c |-> "C", d |-> "D", e |-> "E", f |-> "F",
   g |-> "G", l |-> "L", o |-> "O", p |-> "P", r |-> "R", s |-> "S",
   t |-> "T", u |-> "U", h |-> "H"]

to_lowercase(s) ==
  [i \in 1..Len(s) |-> IF s[i] \in DOMAIN LowerOf THEN LowerOf[s[i]] ELSE s[i]]

to_uppercase(s) ==
  [i \in 1..Len(s) |-> IF s[i] \in DOMAIN UpperOf THEN UpperOf[s[i]] ELSE s[i]]

RECURSIVE trim_start(_)
trim_start(s) ==
  IF s # <<>> /\ Head(s) \in White THEN trim_start(Tail(s)) ELSE s

RECURSIVE trim_end(_)
trim_end(s) ==
  IF s # <<>> /\ s[Len(s)] \in White
    THEN trim_end(SubSeq(s, 1, Len(s) - 1)) ELSE s

trim(s) == trim_end(trim_start(s))

starts_with(s, p) == Len(s) >= Len(p) /\ SubSeq(s, 1, Len(p)) = p

\* n copies of the character c
Rep(n, c) == [i \in 1..n |-> c]

(***************************************************************************)
(* Uuid::parse_str: the simple (32 hex digits), hyphenated (8-4-4-4-12),   *)
(* braced and urn:uuid: forms, hex digits of either case.  The value is    *)
(* the 32 digits lower-cased; Display writes it hyphenated.                *)
(***************************************************************************)
HexDigit ==
  {"0", "1", "2", "3", "4", "5", "6", "7", "8", "9",
   "a", "b", "c", "d", "e", "f", "A", "B", "C", "D", "E", "F"}

AllHex(s) == \A i \in 1..Len(s) : s[i] \in HexDigit

IsSimple(s) == Len(s) = 32 /\ AllHex(s)

IsHyphenated(s) ==
  /\ Len(s) = 36
  /\ \A i \in 1..36 :
       IF i \in {9, 14, 19, 24} THEN s[i] = "-" ELSE s[i] \in HexDigit

Unhyphen(s) ==
  SubSeq(s, 1, 8) \o SubSeq(s, 10, 13) \o SubSeq(s, 15, 18)
    \o SubSeq(s, 20, 23) \o SubSeq(s, 25, 36)

UrnPrefix == <<"u", "r", "n", ":", "u", "u", "i", "d", ":">>

\* a parser that takes any text of 32 or 36 characters for a UUID
parse_str_by_length(s) ==
  IF Len(s) \in {32, 36} THEN Some(to_lowercase(s)) ELSE None

parse_str(s) ==
  IF IsSimple(s) THEN Some(to_lowercase(s))
  ELSE IF IsHyphenated(s) THEN Some(to_lowercase(Unhyphen(s)))
  ELSE IF Len(s) = 38 /\ s[1] = "{" /\ s[38] = "}"
            /\ IsHyphenated(SubSeq(s, 2, 37))
    THEN Some(to_lowercase(Unhyphen(SubSeq(s, 2, 37))))
  ELSE IF Len(s) = 45 /\ starts_with(s, UrnPrefix)
            /\ IsHyphenated(SubSeq(s, 10, 45))
    THEN Some(to_lowercase(Unhyphen(SubSeq(s, 10, 45))))
  ELSE None

\* Display of a Uuid: lower-case hyphenated
UuidText(u) ==
  SubSeq(u, 1, 8) \o <<"-">> \o SubSeq(u, 9, 12) \o <<"-">>
    \o SubSeq(u, 13, 16) \o <<"-">> \o SubSeq(u, 17, 20) \o <<"-">>
    \o SubSeq(u, 21, 32)

(***************************************************************************)
(* serde_json::Value.  A number is an integer n (JInt) or the float x / 2  *)
(* (JFloat: 5.0 is JFloat(10)); a string is a sequence of characters; an   *)
(* object is a function from its keys.  Each kind keeps its payload in a   *)
(* field of its own, so that values of different kinds compare unequal.    *)
(***************************************************************************)
JNull == [t |-> "null"]
JBool(b) == [t |-> "bool", b |-> b]
JInt(n) == [t |-> "int", n |-> n]
JFloat(m) == [t |-> "float", x |-> m]
JStr(s) == [t |-> "str", s |-> s]
JArr(a) == [t |-> "arr", a |-> a]
JObj(o) == [t |-> "obj", o |-> o]
\* the object with no keys
NoKeys == [k \in {} |-> JNull]

\* Value::get(key): the member of an object, None for anything else
Get(j, key) ==
  IF j.t = "obj" /\ key \in DOMAIN j.o THEN Some(j.o[key]) ELSE None

\* Value[key]: the member, Null when j is no object or has no such key
Index(j, key) ==
  IF j.t = "obj" /\ key \in DOMAIN j.o THEN j.o[key] ELSE JNull

(***************************************************************************)
(* The types of the data contracts' fields.                                *)
(***************************************************************************)
TStr == [k |-> "str"]
TI32 == [k |-> "i32"]
TI64 == [k |-> "i64"]
TU64 == [k |-> "u64"]
TF64 == [k |-> "f64"]
TF32 == [k |-> "f32"]
TBool == [k |-> "bool"]
TUuid == [k |-> "uuid"]
TDate == [k |-> "date"]
TValue == [k |-> "value"]
TOpt(t) == [k |-> "opt", of |-> t]
TVec(t) == [k |-> "vec", of |-> t]
TMap(t) == [k |-> "map", of |-> t]
TStruct(n) == [k |-> "struct", name |-> n]

(***************************************************************************)
(* The data contracts: each struct as the sequence of its fields, with the *)
(* JSON key (serde rename), the field's type and whether serde(default)    *)
(* stands in for a missing key.                                            *)
(***************************************************************************)
HealthStatus ==
  <<[key |-> "status", field |-> "status", ty |-> TStr, dflt |-> FALSE],
    [key |-> "timestamp", field |-> "timestamp", ty |-> TStr, dflt |-> FALSE],
    [key |-> "version", field |-> "version", ty |-> TStr, dflt |-> FALSE],
    [key |-> "environment", field |-> "environment", ty |-> TStr, dflt |-> FALSE],
    [key |-> "uptime_seconds", field |-> "uptime_seconds", ty |-> TU64, dflt |-> FALSE],
    [key |-> "checks_summary", field |-> "checks_summary", ty |-> TMap(TStr), dflt |-> FALSE],
    [key |-> "components", field |-> "components", ty |-> TMap(TValue), dflt |-> FALSE]>>

InventoryItem ==
  <<[key |-> "id", field |-> "id", ty |-> TUuid, dflt |-> FALSE],
    [key |-> "product_id", field |-> "product_id", ty |-> TOpt(TUuid), dflt |-> FALSE],
    [key |-> "product_name", field |-> "product_name", ty |-> TStr, dflt |-> FALSE],
    [key |-> "brand_name", field |-> "brand_name", ty |-> TOpt(TStr), dflt |-> FALSE],
    [key |-> "category_name", field |-> "category_name", ty |-> TOpt(TStr), dflt |-> FALSE],
    [key |-> "size", field |-> "size", ty |-> TStr, dflt |-> FALSE],
    [key |-> "quantity", field |-> "quantity", ty |-> TI32, dflt |-> FALSE],
    [key |-> "purchase_price", field |-> "purchase_price", ty |-> TOpt(TF64), dflt |-> FALSE],
    [key |-> "purchase_date", field |-> "purchase_date", ty |-> TOpt(TStr), dflt |-> FALSE],
    [key |-> "supplier", field |-> "supplier", ty |-> TStr, dflt |-> FALSE],
    [key |-> "status", field |-> "status", ty |-> TStr, dflt |-> FALSE],
    [key |-> "notes", field |-> "notes", ty |-> TOpt(TStr), dflt |-> FALSE],
    [key |-> "created_at", field |-> "created_at", ty |-> TStr, dflt |-> FALSE],
    [key |-> "updated_at", field |-> "updated_at", ty |-> TStr, dflt |-> FALSE]>>

ProductStats ==
  <<[key |-> "total_products", field |-> "total_products", ty |-> TI64, dflt |-> FALSE],
    [key |-> "total_inventory_value", field |-> "total_value", ty |-> TF64, dflt |-> FALSE],
    [key |-> "total_brands", field |-> "total_brands", ty |-> TI64, dflt |-> FALSE],
    [key |-> "avg_profit_margin", field |-> "avg_profit_margin", ty |-> TF64, dflt |-> TRUE],
    [key |-> "top_brands", field |-> "top_brands", ty |-> TVec(TStruct("BrandStats")), dflt |-> FALSE]>>

BrandStats ==
  <<[key |-> "name", field |-> "name", ty |-> TStr, dflt |-> FALSE],
    [key |-> "total_products", field |-> "total_products", ty |-> TI64, dflt |-> FALSE],
    [key |-> "total_items", field |-> "total_items", ty |-> TI64, dflt |-> FALSE],
    [key |-> "avg_price", field |-> "avg_price", ty |-> TF64, dflt |-> FALSE],
    [key |-> "total_value", field |-> "total_value", ty |-> TF64, dflt |-> FALSE]>>

ImportRequest ==
  <<[key |-> "from_date", field |-> "from_date", ty |-> TStr, dflt |-> FALSE],
    [key |-> "to_date", field |-> "to_date", ty |-> TStr, dflt |-> FALSE]>>

ImportResponse ==
  <<[key |-> "status", field |-> "status", ty |-> TStr, dflt |-> FALSE],
    [key |-> "message", field |-> "message", ty |-> TStr, dflt |-> FALSE],
    [key |-> "batch_id", field |-> "batch_id", ty |-> TUuid, dflt |-> FALSE]>>

ImportStatus ==
  <<[key |-> "id", field |-> "id", ty |-> TUuid, dflt |-> FALSE],
    [key |-> "source_type", field |-> "source_type", ty |-> TStr, dflt |-> FALSE],
    [key |-> "status", field |-> "status", ty |-> TStr, dflt |-> FALSE],
    [key |-> "progress", field |-> "progress", ty |-> TF32, dflt |-> FALSE],
    [key |-> "records_processed", field |-> "records_processed", ty |-> TI32, dflt |-> FALSE],
    [key |-> "records_failed", field |-> "records_failed", ty |-> TI32, dflt |-> FALSE],
    [key |-> "created_at", field |-> "created_at", ty |-> TDate, dflt |-> FALSE],
    [key |-> "completed_at", field |-> "completed_at", ty |-> TOpt(TDate), dflt |-> FALSE]>>

DashboardMetrics ==
  <<[key |-> "total_inventory_value", field |-> "total_inventory_value", ty |-> TF64, dflt |-> FALSE],
    [key |-> "monthly_sales", field |-> "monthly_sales", ty |-> TF64, dflt |-> FALSE],
    [key |-> "profit_margin", field |-> "profit_margin", ty |-> TF64, dflt |-> FALSE],
    [key |-> "active_listings", field |-> "active_listings", ty |-> TI64, dflt |-> FALSE],
    [key |-> "pending_imports", field |-> "pending_imports", ty |-> TI64, dflt |-> FALSE],
    [key |-> "recent_transactions", field |-> "recent_transactions", ty |-> TVec(TValue), dflt |-> FALSE]>>

ApiDashboardMetrics ==
  <<[key |-> "timestamp", field |-> "timestamp", ty |-> TStr, dflt |-> FALSE],
    [key |-> "inventory", field |-> "inventory", ty |-> TStruct("InventoryMetrics"), dflt |-> FALSE],
    [key |-> "sales", field |-> "sales", ty |-> TStruct("SalesMetrics"), dflt |-> FALSE],
    [key |-> "system", field |-> "system", ty |-> TStruct("SystemMetrics"), dflt |-> FALSE],
    [key |-> "performance", field |-> "performance", ty |-> TStruct("PerformanceMetrics"), dflt |-> FALSE]>>

InventoryMetrics ==
  <<[key |-> "total_items", field |-> "total_items", ty |-> TI64, dflt |-> FALSE],
    [key |-> "items_in_stock", field |-> "items_in_stock", ty |-> TI64, dflt |-> FALSE],
    [key |-> "items_sold", field |-> "items_sold", ty |-> TI64, dflt |-> FALSE],
    [key |-> "items_listed", field |-> "items_listed", ty |-> TI64, dflt |-> FALSE],
    [key |-> "total_inventory_value", field |-> "total_inventory_value", ty |-> TF64, dflt |-> FALSE],
    [key |-> "average_purchase_price", field |-> "average_purchase_price", ty |-> TF64, dflt |-> FALSE],
    [key |-> "top_brands", field |-> "top_brands", ty |-> TVec(TValue), dflt |-> FALSE],
    [key |-> "status_breakdown", field |-> "status_breakdown", ty |-> TMap(TValue), dflt |-> FALSE]>>

SalesMetrics ==
  <<[key |-> "recent_activity", field |-> "recent_activity", ty |-> TVec(TValue), dflt |-> FALSE]>>

SystemMetrics ==
  <<[key |-> "status", field |-> "status", ty |-> TStr, dflt |-> FALSE],
    [key |-> "uptime_seconds", field |-> "uptime_seconds", ty |-> TF64, dflt |-> FALSE],
    [key |-> "environment", field |-> "environment", ty |-> TStr, dflt |-> FALSE],
    [key |-> "version", field |-> "version", ty |-> TStr, dflt |-> FALSE]>>

PerformanceMetrics ==
  <<[key |-> "total_requests", field |-> "total_requests", ty |-> TI64, dflt |-> FALSE],
    [key |-> "error_rate", field |-> "error_rate", ty |-> TF64, dflt |-> FALSE],
    [key |-> "avg_response_time", field |-> "avg_response_time", ty |-> TF64, dflt |-> FALSE]>>

EnrichmentStats ==
  <<[key |-> "completed", field |-> "completed", ty |-> TI64, dflt |-> FALSE],
    [key |-> "missing", field |-> "missing", ty |-> TI64, dflt |-> FALSE],
    [key |-> "completion_percentage", field |-> "completion_percentage", ty |-> TF64, dflt |-> FALSE]>>

EnrichmentStatusResponse ==
  <<[key |-> "timestamp", field |-> "timestamp", ty |-> TStr, dflt |-> FALSE],
    [key |-> "total_products", field |-> "total_products", ty |-> TI64, dflt |-> FALSE],
    [key |-> "enrichment_stats", field |-> "enrichment_stats", ty |-> TStruct("EnrichmentStatsBreakdown"), dflt |-> FALSE],
    [key |-> "overall_completion", field |-> "overall_completion", ty |-> TF64, dflt |-> FALSE]>>

EnrichmentStatsBreakdown ==
  <<[key |-> "sku", field |-> "sku", ty |-> TStruct("EnrichmentStats"), dflt |-> FALSE],
    [key |-> "description", field |-> "description", ty |-> TStruct("EnrichmentStats"), dflt |-> FALSE],
    [key |-> "retail_price", field |-> "retail_price", ty |-> TStruct("EnrichmentStats"), dflt |-> FALSE],
    [key |-> "release_date", field |-> "release_date", ty |-> TStruct("EnrichmentStats"), dflt |-> FALSE]>>

EnrichmentResponse ==
  <<[key |-> "message", field |-> "message", ty |-> TStr, dflt |-> FALSE],
    [key |-> "target_products", field |-> "target_products", ty |-> TStr, dflt |-> FALSE]>>

PricingRequest ==
  <<[key |-> "product_id", field |-> "product_id", ty |-> TStr, dflt |-> FALSE],
    [key |-> "inventory_id", field |-> "inventory_id", ty |-> TOpt(TStr), dflt |-> FALSE],
    [key |-> "strategy", field |-> "strategy", ty |-> TOpt(TStr), dflt |-> FALSE],
    [key |-> "target_margin", field |-> "target_margin", ty |-> TOpt(TF64), dflt |-> FALSE],
    [key |-> "condition", field |-> "condition", ty |-> TStr, dflt |-> FALSE],
    [key |-> "size", field |-> "size", ty |-> TOpt(TStr), dflt |-> FALSE]>>

PricingRecommendation ==
  <<[key |-> "product_id", field |-> "product_id", ty |-> TStr, dflt |-> FALSE],
    [key |-> "suggested_price", field |-> "suggested_price", ty |-> TF64, dflt |-> FALSE],
    [key |-> "strategy_used", field |-> "strategy_used", ty |-> TStr, dflt |-> FALSE],
    [key |-> "confidence_score", field |-> "confidence_score", ty |-> TF64, dflt |-> FALSE],
    [key |-> "margin_percent", field |-> "margin_percent", ty |-> TF64, dflt |-> FALSE],
    [key |-> "markup_percent", field |-> "markup_percent", ty |-> TF64, dflt |-> FALSE],
    [key |-> "reasoning", field |-> "reasoning", ty |-> TVec(TStr), dflt |-> FALSE],
    [key |-> "market_position", field |-> "market_position", ty |-> TOpt(TStr), dflt |-> FALSE],
    [key |-> "price_range", field |-> "price_range", ty |-> TOpt(TMap(TF64)), dflt |-> FALSE]>>

MarketAnalysis ==
  <<[key |-> "product_id", field |-> "product_id", ty |-> TStr, dflt |-> FALSE],
    [key |-> "current_market_price", field |-> "current_market_price", ty |-> TOpt(TF64), dflt |-> FALSE],
    [key |-> "price_trend", field |-> "price_trend", ty |-> TStr, dflt |-> FALSE],
    [key |-> "market_position", field |-> "market_position", ty |-> TStr, dflt |-> FALSE],
    [key |-> "competitor_count", field |-> "competitor_count", ty |-> TI32, dflt |-> FALSE],
    [key |-> "demand_score", field |-> "demand_score", ty |-> TF64, dflt |-> FALSE],
    [key |-> "supply_score", field |-> "supply_score", ty |-> TF64, dflt |-> FALSE],
    [key |-> "recommended_action", field |-> "recommended_action", ty |-> TStr, dflt |-> FALSE]>>

PricingInsights ==
  <<[key |-> "timestamp", field |-> "timestamp", ty |-> TStr, dflt |-> FALSE],
    [key |-> "summary", field |-> "summary", ty |-> TStruct("PricingInsightsSummary"), dflt |-> FALSE],
    [key |-> "recommendations", field |-> "recommendations", ty |-> TVec(TStr), dflt |-> FALSE]>>

PricingInsightsSummary ==
  <<[key |-> "total_products_analyzed", field |-> "total_products_analyzed", ty |-> TI32, dflt |-> FALSE],
    [key |-> "average_price", field |-> "average_price", ty |-> TF64, dflt |-> FALSE],
    [key |-> "average_margin_percent", field |-> "average_margin_percent", ty |-> TF64, dflt |-> FALSE],
    [key |-> "total_price_updates", field |-> "total_price_updates", ty |-> TI32, dflt |-> FALSE],
    [key |-> "recent_updates_30d", field |-> "recent_updates_30d", ty |-> TI32, dflt |-> FALSE]>>

ForecastRequest ==
  <<[key |-> "product_id", field |-> "product_id", ty |-> TOpt(TStr), dflt |-> FALSE],
    [key |-> "brand_id", field |-> "brand_id", ty |-> TOpt(TStr), dflt |-> FALSE],
    [key |-> "category_id", field |-> "category_id", ty |-> TOpt(TStr), dflt |-> FALSE],
    [key |-> "horizon_days", field |-> "horizon_days", ty |-> TI32, dflt |-> FALSE],
    [key |-> "model", field |-> "model", ty |-> TOpt(TStr), dflt |-> FALSE],
    [key |-> "confidence_level", field |-> "confidence_level", ty |-> TF64, dflt |-> FALSE]>>

SalesForecast ==
  <<[key |-> "target_id", field |-> "target_id", ty |-> TStr, dflt |-> FALSE],
    [key |-> "target_type", field |-> "target_type", ty |-> TStr, dflt |-> FALSE],
    [key |-> "forecast_date", field |-> "forecast_date", ty |-> TStr, dflt |-> FALSE],
    [key |-> "horizon_days", field |-> "horizon_days", ty |-> TI32, dflt |-> FALSE],
    [key |-> "predicted_sales", field |-> "predicted_sales", ty |-> TF64, dflt |-> FALSE],
    [key |-> "predicted_revenue", field |-> "predicted_revenue", ty |-> TF64, dflt |-> FALSE],
    [key |-> "confidence_interval_lower", field |-> "confidence_interval_lower", ty |-> TF64, dflt |-> FALSE],
    [key |-> "confidence_interval_upper", field |-> "confidence_interval_upper", ty |-> TF64, dflt |-> FALSE],
    [key |-> "model_used", field |-> "model_used", ty |-> TStr, dflt |-> FALSE],
    [key |-> "accuracy_score", field |-> "accuracy_score", ty |-> TOpt(TF64), dflt |-> FALSE],
    [key |-> "trend", field |-> "trend", ty |-> TStr, dflt |-> FALSE],
    [key |-> "seasonality_factor", field |-> "seasonality_factor", ty |-> TOpt(TF64), dflt |-> FALSE]>>

ForecastAnalysis ==
  <<[key |-> "forecast", field |-> "forecast", ty |-> TStruct("SalesForecast"), dflt |-> FALSE],
    [key |-> "historical_data", field |-> "historical_data", ty |-> TVec(TMap(TValue)), dflt |-> FALSE],
    [key |-> "key_insights", field |-> "key_insights", ty |-> TVec(TStr), dflt |-> FALSE],
    [key |-> "recommendations", field |-> "recommendations", ty |-> TVec(TStr), dflt |-> FALSE],
    [key |-> "model_performance", field |-> "model_performance", ty |-> TMap(TValue), dflt |-> FALSE]>>

MarketTrend ==
  <<[key |-> "period", field |-> "period", ty |-> TStr, dflt |-> FALSE],
    [key |-> "trend_direction", field |-> "trend_direction", ty |-> TStr, dflt |-> FALSE],
    [key |-> "strength", field |-> "strength", ty |-> TF64, dflt |-> FALSE],
    [key |-> "key_drivers", field |-> "key_drivers", ty |-> TVec(TStr), dflt |-> FALSE],
    [key |-> "forecast_impact", field |-> "forecast_impact", ty |-> TStr, dflt |-> FALSE]>>

PredictiveInsights ==
  <<[key |-> "timestamp", field |-> "timestamp", ty |-> TStr, dflt |-> FALSE],
    [key |-> "business_metrics", field |-> "business_metrics", ty |-> TStruct("BusinessMetrics"), dflt |-> FALSE],
    [key |-> "predictive_insights", field |-> "predictive_insights", ty |-> TVec(TStr), dflt |-> FALSE],
    [key |-> "growth_opportunities", field |-> "growth_opportunities", ty |-> TVec(TStr), dflt |-> FALSE],
    [key |-> "risk_factors", field |-> "risk_factors", ty |-> TVec(TStr), dflt |-> FALSE],
    [key |-> "recommendations", field |-> "recommendations", ty |-> TVec(TStr), dflt |-> FALSE],
    [key |-> "confidence_score", field |-> "confidence_score", ty |-> TF64, dflt |-> FALSE]>>

BusinessMetrics ==
  <<[key |-> "transactions_90d", field |-> "transactions_90d", ty |-> TI32, dflt |-> FALSE],
    [key |-> "revenue_90d", field |-> "revenue_90d", ty |-> TF64, dflt |-> FALSE],
    [key |-> "avg_transaction_value", field |-> "avg_transaction_value", ty |-> TF64, dflt |-> FALSE],
    [key |-> "active_products", field |-> "active_products", ty |-> TI32, dflt |-> FALSE],
    [key |-> "active_brands", field |-> "active_brands", ty |-> TI32, dflt |-> FALSE]>>

SmartPricingOptimization ==
  <<[key |-> "total_items_analyzed", field |-> "total_items_analyzed", ty |-> TI32, dflt |-> FALSE],
    [key |-> "items_optimized", field |-> "items_optimized", ty |-> TI32, dflt |-> FALSE],
    [key |-> "potential_profit_increase", field |-> "potential_profit_increase", ty |-> TF64, dflt |-> FALSE],
    [key |-> "pricing_strategy", field |-> "pricing_strategy", ty |-> TStr, dflt |-> FALSE],
    [key |-> "market_conditions", field |-> "market_conditions", ty |-> TStr, dflt |-> FALSE],
    [key |-> "timestamp", field |-> "timestamp", ty |-> TStr, dflt |-> FALSE],
    [key |-> "recommendations", field |-> "recommendations", ty |-> TVec(TStruct("PricingOptimizationRecommendation")), dflt |-> FALSE]>>

PricingOptimizationRecommendation ==
  <<[key |-> "product_name", field |-> "product_name", ty |-> TStr, dflt |-> FALSE],
    [key |-> "current_price", field |-> "current_price", ty |-> TF64, dflt |-> FALSE],
    [key |-> "recommended_price", field |-> "recommended_price", ty |-> TF64, dflt |-> FALSE],
    [key |-> "profit_increase", field |-> "profit_increase", ty |-> TF64, dflt |-> FALSE],
    [key |-> "confidence", field |-> "confidence", ty |-> TF64, dflt |-> FALSE]>>

AutoRepricingStatus ==
  <<[key |-> "enabled", field |-> "enabled", ty |-> TBool, dflt |-> FALSE],
    [key |-> "last_run", field |-> "last_run", ty |-> TOpt(TStr), dflt |-> FALSE],
    [key |-> "items_repriced", field |-> "items_repriced", ty |-> TI32, dflt |-> FALSE],
    [key |-> "strategy", field |-> "strategy", ty |-> TStr, dflt |-> FALSE],
    [key |-> "next_run", field |-> "next_run", ty |-> TOpt(TStr), dflt |-> FALSE],
    [key |-> "rules_applied", field |-> "rules_applied", ty |-> TI32, dflt |-> FALSE]>>

MarketTrendData ==
  <<[key |-> "current_condition", field |-> "current_condition", ty |-> TStr, dflt |-> FALSE],
    [key |-> "trend_strength", field |-> "trend_strength", ty |-> TF64, dflt |-> FALSE],
    [key |-> "volatility_level", field |-> "volatility_level", ty |-> TStr, dflt |-> FALSE],
    [key |-> "price_momentum", field |-> "price_momentum", ty |-> TStr, dflt |-> FALSE],
    [key |-> "recommended_action", field |-> "recommended_action", ty |-> TStr, dflt |-> FALSE],
    [key |-> "confidence_score", field |-> "confidence_score", ty |-> TF64, dflt |-> FALSE],
    [key |-> "key_insights", field |-> "key_insights", ty |-> TVec(TStr), dflt |-> FALSE]>>

AutoListingStatus ==
  <<[key |-> "enabled", field |-> "enabled", ty |-> TBool, dflt |-> FALSE],
    [key |-> "total_rules", field |-> "total_rules", ty |-> TI32, dflt |-> FALSE],
    [key |-> "active_rules", field |-> "active_rules", ty |-> TI32, dflt |-> FALSE],
    [key |-> "last_run", field |-> "last_run", ty |-> TOpt(TStr), dflt |-> FALSE],
    [key |-> "next_scheduled_run", field |-> "next_scheduled_run", ty |-> TOpt(TStr), dflt |-> FALSE],
    [key |-> "items_processed_today", field |-> "items_processed_today", ty |-> TI32, dflt |-> FALSE],
    [key |-> "items_listed_today", field |-> "items_listed_today", ty |-> TI32, dflt |-> FALSE],
    [key |-> "success_rate_percent", field |-> "success_rate_percent", ty |-> TF64, dflt |-> FALSE],
    [key |-> "rules", field |-> "rules", ty |-> TVec(TStruct("ListingRule")), dflt |-> FALSE]>>

ListingRule ==
  <<[key |-> "name", field |-> "name", ty |-> TStr, dflt |-> FALSE],
    [key |-> "active", field |-> "active", ty |-> TBool, dflt |-> FALSE],
    [key |-> "priority", field |-> "priority", ty |-> TI32, dflt |-> FALSE],
    [key |-> "conditions_count", field |-> "conditions_count", ty |-> TI32, dflt |-> FALSE],
    [key |-> "items_matched_today", field |-> "items_matched_today", ty |-> TOpt(TI32), dflt |-> FALSE]>>

AutoListingExecution ==
  <<[key |-> "execution_id", field |-> "execution_id", ty |-> TStr, dflt |-> FALSE],
    [key |-> "started_at", field |-> "started_at", ty |-> TStr, dflt |-> FALSE],
    [key |-> "max_items", field |-> "max_items", ty |-> TI32, dflt |-> FALSE],
    [key |-> "dry_run", field |-> "dry_run", ty |-> TBool, dflt |-> FALSE],
    [key |-> "items_evaluated", field |-> "items_evaluated", ty |-> TI32, dflt |-> FALSE],
    [key |-> "items_listed", field |-> "items_listed", ty |-> TI32, dflt |-> FALSE],
    [key |-> "rules_matched", field |-> "rules_matched", ty |-> TI32, dflt |-> FALSE],
    [key |-> "errors", field |-> "errors", ty |-> TI32, dflt |-> FALSE],
    [key |-> "skipped", field |-> "skipped", ty |-> TI32, dflt |-> FALSE],
    [key |-> "execution_time", field |-> "execution_time", ty |-> TF64, dflt |-> FALSE],
    [key |-> "listings_created", field |-> "listings_created", ty |-> TVec(TStruct("ListingCreated")), dflt |-> FALSE]>>

ListingCreated ==
  <<[key |-> "item_id", field |-> "item_id", ty |-> TStr, dflt |-> FALSE],
    [key |-> "product_name", field |-> "product_name", ty |-> TStr, dflt |-> FALSE],
    [key |-> "rule_applied", field |-> "rule_applied", ty |-> TStr, dflt |-> FALSE],
    [key |-> "price", field |-> "price", ty |-> TOpt(TF64), dflt |-> FALSE],
    [key |-> "platform", field |-> "platform", ty |-> TOpt(TStr), dflt |-> FALSE],
    [key |-> "dry_run", field |-> "dry_run", ty |-> TOpt(TBool), dflt |-> FALSE],
    [key |-> "would_list", field |-> "would_list", ty |-> TOpt(TBool), dflt |-> FALSE],
    [key |-> "estimated_price", field |-> "estimated_price", ty |-> TOpt(TF64), dflt |-> FALSE]>>

AutoListingSimulation ==
  <<[key |-> "simulation_complete", field |-> "simulation_complete", ty |-> TBool, dflt |-> FALSE],
    [key |-> "rule_tested", field |-> "rule_tested", ty |-> TStr, dflt |-> FALSE],
    [key |-> "items_evaluated", field |-> "items_evaluated", ty |-> TI32, dflt |-> FALSE],
    [key |-> "items_that_would_be_listed", field |-> "items_that_would_be_listed", ty |-> TI32, dflt |-> FALSE],
    [key |-> "rules_matched", field |-> "rules_matched", ty |-> TI32, dflt |-> FALSE],
    [key |-> "potential_revenue", field |-> "potential_revenue", ty |-> TF64, dflt |-> FALSE],
    [key |-> "average_markup_percent", field |-> "average_markup_percent", ty |-> TF64, dflt |-> FALSE],
    [key |-> "execution_time", field |-> "execution_time", ty |-> TF64, dflt |-> FALSE],
    [key |-> "matched_items", field |-> "matched_items", ty |-> TVec(TStruct("SimulatedListingItem")), dflt |-> FALSE]>>

SimulatedListingItem ==
  <<[key |-> "item_id", field |-> "item_id", ty |-> TStr, dflt |-> FALSE],
    [key |-> "product_name", field |-> "product_name", ty |-> TStr, dflt |-> FALSE],
    [key |-> "rule_matched", field |-> "rule_matched", ty |-> TStr, dflt |-> FALSE],
    [key |-> "current_status", field |-> "current_status", ty |-> TStr, dflt |-> FALSE],
    [key |-> "purchase_price", field |-> "purchase_price", ty |-> TF64, dflt |-> FALSE],
    [key |-> "estimated_listing_price", field |-> "estimated_listing_price", ty |-> TF64, dflt |-> FALSE],
    [key |-> "profit_margin_percent", field |-> "profit_margin_percent", ty |-> TF64, dflt |-> FALSE],
    [key |-> "confidence", field |-> "confidence", ty |-> TF64, dflt |-> FALSE]>>

RuleToggleResponse ==
  <<[key |-> "success", field |-> "success", ty |-> TBool, dflt |-> FALSE],
    [key |-> "rule_name", field |-> "rule_name", ty |-> TStr, dflt |-> FALSE],
    [key |-> "previous_state", field |-> "previous_state", ty |-> TBool, dflt |-> FALSE],
    [key |-> "new_state", field |-> "new_state", ty |-> TBool, dflt |-> FALSE],
    [key |-> "message", field |-> "message", ty |-> TStr, dflt |-> FALSE],
    [key |-> "updated_at", field |-> "updated_at", ty |-> TStr, dflt |-> FALSE]>>

DeadStockSummary ==
  <<[key |-> "total_items_at_risk", field |-> "total_items_at_risk", ty |-> TI32, dflt |-> FALSE],
    [key |-> "risk_breakdown", field |-> "risk_breakdown", ty |-> TMap(TI32), dflt |-> FALSE],
    [key |-> "financial_impact", field |-> "financial_impact", ty |-> TStruct("DeadStockFinancialImpact"), dflt |-> FALSE],
    [key |-> "top_priorities", field |-> "top_priorities", ty |-> TVec(TStruct("DeadStockItem")), dflt |-> FALSE],
    [key |-> "last_analysis", field |-> "last_analysis", ty |-> TStr, dflt |-> FALSE]>>

DeadStockFinancialImpact ==
  <<[key |-> "locked_capital", field |-> "locked_capital", ty |-> TF64, dflt |-> FALSE],
    [key |-> "potential_loss", field |-> "potential_loss", ty |-> TF64, dflt |-> FALSE],
    [key |-> "loss_percentage", field |-> "loss_percentage", ty |-> TF64, dflt |-> FALSE]>>

DeadStockItem ==
  <<[key |-> "item_id", field |-> "item_id", ty |-> TStr, dflt |-> FALSE],
    [key |-> "product_name", field |-> "product_name", ty |-> TStr, dflt |-> FALSE],
    [key |-> "brand_name", field |-> "brand_name", ty |-> TStr, dflt |-> FALSE],
    [key |-> "size_value", field |-> "size_value", ty |-> TStr, dflt |-> FALSE],
    [key |-> "purchase_price", field |-> "purchase_price", ty |-> TF64, dflt |-> FALSE],
    [key |-> "current_market_price", field |-> "current_market_price", ty |-> TOpt(TF64), dflt |-> FALSE],
    [key |-> "days_in_inventory", field |-> "days_in_inventory", ty |-> TI32, dflt |-> FALSE],
    [key |-> "risk_score", field |-> "risk_score", ty |-> TF64, dflt |-> FALSE],
    [key |-> "risk_level", field |-> "risk_level", ty |-> TStr, dflt |-> FALSE],
    [key |-> "locked_capital", field |-> "locked_capital", ty |-> TF64, dflt |-> FALSE],
    [key |-> "potential_loss", field |-> "potential_loss", ty |-> TF64, dflt |-> FALSE],
    [key |-> "recommended_actions", field |-> "recommended_actions", ty |-> TVec(TStr), dflt |-> FALSE],
    [key |-> "market_trend", field |-> "market_trend", ty |-> TOpt(TStr), dflt |-> FALSE],
    [key |-> "velocity_score", field |-> "velocity_score", ty |-> TOpt(TF64), dflt |-> FALSE]>>

DeadStockAnalysis ==
  <<[key |-> "analysis_id", field |-> "analysis_id", ty |-> TStr, dflt |-> FALSE],
    [key |-> "started_at", field |-> "started_at", ty |-> TStr, dflt |-> FALSE],
    [key |-> "total_items_analyzed", field |-> "total_items_analyzed", ty |-> TI32, dflt |-> FALSE],
    [key |-> "filters_applied", field |-> "filters_applied", ty |-> TMap(TValue), dflt |-> FALSE],
    [key |-> "dead_stock_items", field |-> "dead_stock_items", ty |-> TVec(TStruct("DeadStockItem")), dflt |-> FALSE],
    [key |-> "risk_summary", field |-> "risk_summary", ty |-> TMap(TI32), dflt |-> FALSE],
    [key |-> "financial_impact", field |-> "financial_impact", ty |-> TStruct("DeadStockDetailedFinancialImpact"), dflt |-> FALSE],
    [key |-> "recommendations", field |-> "recommendations", ty |-> TVec(TStr), dflt |-> FALSE],
    [key |-> "analysis_timestamp", field |-> "analysis_timestamp", ty |-> TStr, dflt |-> FALSE]>>

DeadStockDetailedFinancialImpact ==
  <<[key |-> "total_locked_capital", field |-> "total_locked_capital", ty |-> TF64, dflt |-> FALSE],
    [key |-> "total_potential_loss", field |-> "total_potential_loss", ty |-> TF64, dflt |-> FALSE],
    [key |-> "loss_percentage", field |-> "loss_percentage", ty |-> TF64, dflt |-> FALSE],
    [key |-> "locked_capital_by_risk", field |-> "locked_capital_by_risk", ty |-> TMap(TF64), dflt |-> FALSE]>>

ClearanceExecution ==
  <<[key |-> "execution_id", field |-> "execution_id", ty |-> TStr, dflt |-> FALSE],
    [key |-> "started_at", field |-> "started_at", ty |-> TStr, dflt |-> FALSE],
    [key |-> "success", field |-> "success", ty |-> TBool, dflt |-> FALSE],
    [key |-> "dry_run", field |-> "dry_run", ty |-> TBool, dflt |-> FALSE],
    [key |-> "risk_levels_targeted", field |-> "risk_levels_targeted", ty |-> TVec(TStr), dflt |-> FALSE],
    [key |-> "items_processed", field |-> "items_processed", ty |-> TI32, dflt |-> FALSE],
    [key |-> "actions_taken", field |-> "actions_taken", ty |-> TVec(TStruct("ClearanceAction")), dflt |-> FALSE],
    [key |-> "total_price_reductions", field |-> "total_price_reductions", ty |-> TF64, dflt |-> FALSE],
    [key |-> "estimated_capital_freed", field |-> "estimated_capital_freed", ty |-> TF64, dflt |-> FALSE],
    [key |-> "projected_outcomes", field |-> "projected_outcomes", ty |-> TStruct("ClearanceProjection"), dflt |-> FALSE],
    [key |-> "execution_time", field |-> "execution_time", ty |-> TF64, dflt |-> FALSE]>>

ClearanceAction ==
  <<[key |-> "item_id", field |-> "item_id", ty |-> TStr, dflt |-> FALSE],
    [key |-> "product_name", field |-> "product_name", ty |-> TStr, dflt |-> FALSE],
    [key |-> "original_price", field |-> "original_price", ty |-> TOpt(TF64), dflt |-> FALSE],
    [key |-> "new_price", field |-> "new_price", ty |-> TOpt(TF64), dflt |-> FALSE],
    [key |-> "discount_percent", field |-> "discount_percent", ty |-> TF64, dflt |-> FALSE],
    [key |-> "action_type", field |-> "action_type", ty |-> TStr, dflt |-> FALSE],
    [key |-> "estimated_sale_probability", field |-> "estimated_sale_probability", ty |-> TOpt(TF64), dflt |-> FALSE],
    [key |-> "would_reduce_from", field |-> "would_reduce_from", ty |-> TOpt(TF64), dflt |-> FALSE],
    [key |-> "would_reduce_to", field |-> "would_reduce_to", ty |-> TOpt(TF64), dflt |-> FALSE],
    [key |-> "dry_run", field |-> "dry_run", ty |-> TOpt(TBool), dflt |-> FALSE]>>

ClearanceProjection ==
  <<[key |-> "estimated_sales_within_30d", field |-> "estimated_sales_within_30d", ty |-> TI32, dflt |-> FALSE],
    [key |-> "estimated_revenue", field |-> "estimated_revenue", ty |-> TF64, dflt |-> FALSE],
    [key |-> "capital_recovery_rate", field |-> "capital_recovery_rate", ty |-> TF64, dflt |-> FALSE]>>

RiskLevelDefinitions ==
  <<[key |-> "risk_levels", field |-> "risk_levels", ty |-> TMap(TStruct("RiskLevelDefinition")), dflt |-> FALSE],
    [key |-> "calculation_factors", field |-> "calculation_factors", ty |-> TMap(TF64), dflt |-> FALSE],
    [key |-> "automation_triggers", field |-> "automation_triggers", ty |-> TMap(TF64), dflt |-> FALSE]>>

RiskLevelDefinition ==
  <<[key |-> "name", field |-> "name", ty |-> TStr, dflt |-> FALSE],
    [key |-> "description", field |-> "description", ty |-> TStr, dflt |-> FALSE],
    [key |-> "risk_score_range", field |-> "risk_score_range", ty |-> TStr, dflt |-> FALSE],
    [key |-> "age_threshold_days", field |-> "age_threshold_days", ty |-> TI32, dflt |-> FALSE],
    [key |-> "color", field |-> "color", ty |-> TStr, dflt |-> FALSE],
    [key |-> "icon", field |-> "icon", ty |-> TStr, dflt |-> FALSE],
    [key |-> "action_priority", field |-> "action_priority", ty |-> TStr, dflt |-> FALSE]>>

DeadStockTrends ==
  <<[key |-> "trend_period", field |-> "trend_period", ty |-> TStr, dflt |-> FALSE],
    [key |-> "trend_data", field |-> "trend_data", ty |-> TVec(TStruct("DeadStockTrendData")), dflt |-> FALSE],
    [key |-> "insights", field |-> "insights", ty |-> TStruct("DeadStockInsights"), dflt |-> FALSE],
    [key |-> "recommendations", field |-> "recommendations", ty |-> TVec(TStr), dflt |-> FALSE]>>

DeadStockTrendData ==
  <<[key |-> "date", field |-> "date", ty |-> TStr, dflt |-> FALSE],
    [key |-> "total_dead_stock_items", field |-> "total_dead_stock_items", ty |-> TI32, dflt |-> FALSE],
    [key |-> "locked_capital", field |-> "locked_capital", ty |-> TF64, dflt |-> FALSE],
    [key |-> "items_liquidated", field |-> "items_liquidated", ty |-> TI32, dflt |-> FALSE],
    [key |-> "capital_freed", field |-> "capital_freed", ty |-> TF64, dflt |-> FALSE]>>

DeadStockInsights ==
  <<[key |-> "trend_direction", field |-> "trend_direction", ty |-> TStr, dflt |-> FALSE],
    [key |-> "avg_liquidation_success_rate", field |-> "avg_liquidation_success_rate", ty |-> TF64, dflt |-> FALSE],
    [key |-> "most_problematic_category", field |-> "most_problematic_category", ty |-> TStr, dflt |-> FALSE],
    [key |-> "most_problematic_brand", field |-> "most_problematic_brand", ty |-> TStr, dflt |-> FALSE],
    [key |-> "seasonal_pattern", field |-> "seasonal_pattern", ty |-> TStr, dflt |-> FALSE]>>

PredictiveInsight ==
  <<[key |-> "insight_id", field |-> "insight_id", ty |-> TStr, dflt |-> FALSE],
    [key |-> "insight_type", field |-> "insight_type", ty |-> TStr, dflt |-> FALSE],
    [key |-> "priority", field |-> "priority", ty |-> TStr, dflt |-> FALSE],
    [key |-> "title", field |-> "title", ty |-> TStr, dflt |-> FALSE],
    [key |-> "description", field |-> "description", ty |-> TStr, dflt |-> FALSE],
    [key |-> "product_id", field |-> "product_id", ty |-> TOpt(TStr), dflt |-> FALSE],
    [key |-> "product_name", field |-> "product_name", ty |-> TOpt(TStr), dflt |-> FALSE],
    [key |-> "confidence_score", field |-> "confidence_score", ty |-> TF64, dflt |-> FALSE],
    [key |-> "recommended_actions", field |-> "recommended_actions", ty |-> TVec(TValue), dflt |-> FALSE],
    [key |-> "supporting_data", field |-> "supporting_data", ty |-> TValue, dflt |-> FALSE],
    [key |-> "expires_at", field |-> "expires_at", ty |-> TStr, dflt |-> FALSE]>>

InventoryForecast ==
  <<[key |-> "product_id", field |-> "product_id", ty |-> TStr, dflt |-> FALSE],
    [key |-> "product_name", field |-> "product_name", ty |-> TStr, dflt |-> FALSE],
    [key |-> "current_stock", field |-> "current_stock", ty |-> TI32, dflt |-> FALSE],
    [key |-> "predicted_demand_30d", field |-> "predicted_demand_30d", ty |-> TF64, dflt |-> FALSE],
    [key |-> "predicted_demand_90d", field |-> "predicted_demand_90d", ty |-> TF64, dflt |-> FALSE],
    [key |-> "restock_recommendation", field |-> "restock_recommendation", ty |-> TStr, dflt |-> FALSE],
    [key |-> "optimal_restock_quantity", field |-> "optimal_restock_quantity", ty |-> TI32, dflt |-> FALSE],
    [key |-> "days_until_stockout", field |-> "days_until_stockout", ty |-> TOpt(TI32), dflt |-> FALSE],
    [key |-> "confidence_level", field |-> "confidence_level", ty |-> TF64, dflt |-> FALSE],
    [key |-> "seasonal_factors", field |-> "seasonal_factors", ty |-> TValue, dflt |-> FALSE]>>

RestockRecommendation ==
  <<[key |-> "product_id", field |-> "product_id", ty |-> TStr, dflt |-> FALSE],
    [key |-> "product_name", field |-> "product_name", ty |-> TStr, dflt |-> FALSE],
    [key |-> "current_stock", field |-> "current_stock", ty |-> TI32, dflt |-> FALSE],
    [key |-> "recommended_quantity", field |-> "recommended_quantity", ty |-> TI32, dflt |-> FALSE],
    [key |-> "investment_required", field |-> "investment_required", ty |-> TF64, dflt |-> FALSE],
    [key |-> "projected_revenue", field |-> "projected_revenue", ty |-> TF64, dflt |-> FALSE],
    [key |-> "projected_profit", field |-> "projected_profit", ty |-> TF64, dflt |-> FALSE],
    [key |-> "roi_estimate", field |-> "roi_estimate", ty |-> TF64, dflt |-> FALSE],
    [key |-> "optimal_timing", field |-> "optimal_timing", ty |-> TStr, dflt |-> FALSE],
    [key |-> "risk_level", field |-> "risk_level", ty |-> TStr, dflt |-> FALSE],
    [key |-> "supporting_insights", field |-> "supporting_insights", ty |-> TVec(TStr), dflt |-> FALSE]>>

PredictiveInsightsSummary ==
  <<[key |-> "timestamp", field |-> "timestamp", ty |-> TStr, dflt |-> FALSE],
    [key |-> "insights_generated", field |-> "insights_generated", ty |-> TI32, dflt |-> FALSE],
    [key |-> "critical_insights", field |-> "critical_insights", ty |-> TI32, dflt |-> FALSE],
    [key |-> "high_priority_insights", field |-> "high_priority_insights", ty |-> TI32, dflt |-> FALSE],
    [key |-> "restock_opportunities", field |-> "restock_opportunities", ty |-> TI32, dflt |-> FALSE],
    [key |-> "profit_optimizations", field |-> "profit_optimizations", ty |-> TI32, dflt |-> FALSE],
    [key |-> "market_shifts_detected", field |-> "market_shifts_detected", ty |-> TI32, dflt |-> FALSE],
    [key |-> "seasonal_trends", field |-> "seasonal_trends", ty |-> TI32, dflt |-> FALSE],
    [key |-> "clearance_alerts", field |-> "clearance_alerts", ty |-> TI32, dflt |-> FALSE],
    [key |-> "total_potential_revenue", field |-> "total_potential_revenue", ty |-> TF64, dflt |-> FALSE],
    [key |-> "total_potential_profit", field |-> "total_potential_profit", ty |-> TF64, dflt |-> FALSE],
    [key |-> "avg_forecast_confidence", field |-> "avg_forecast_confidence", ty |-> TF64, dflt |-> FALSE],
    [key |-> "categories", field |-> "categories", ty |-> TValue, dflt |-> FALSE],
    [key |-> "recommendations", field |-> "recommendations", ty |-> TVec(TStr), dflt |-> FALSE],
    [key |-> "next_analysis_at", field |-> "next_analysis_at", ty |-> TStr, dflt |-> FALSE]>>

SystemStatus ==
  <<[key |-> "api_connected", field |-> "api_connected", ty |-> TBool, dflt |-> FALSE],
    [key |-> "database_healthy", field |-> "database_healthy", ty |-> TBool, dflt |-> FALSE],
    [key |-> "last_check", field |-> "last_check", ty |-> TStr, dflt |-> FALSE],
    [key |-> "version", field |-> "version", ty |-> TStr, dflt |-> FALSE],
    [key |-> "environment", field |-> "environment", ty |-> TStr, dflt |-> FALSE]>>

StockXListingRequest ==
  <<[key |-> "item_id", field |-> "item_id", ty |-> TStr, dflt |-> FALSE],
    [key |-> "listing_type", field |-> "listing_type", ty |-> TStr, dflt |-> FALSE]>>

StockXListingResponse ==
  <<[key |-> "success", field |-> "success", ty |-> TBool, dflt |-> FALSE],
    [key |-> "listing_id", field |-> "listing_id", ty |-> TOpt(TStr), dflt |-> FALSE],
    [key |-> "message", field |-> "message", ty |-> TStr, dflt |-> FALSE]>>

Fields(n) ==
  CASE n = "HealthStatus" -> HealthStatus
    [] n = "InventoryItem" -> InventoryItem
    [] n = "ProductStats" -> ProductStats
    [] n = "BrandStats" -> BrandStats
    [] n = "ImportRequest" -> ImportRequest
    [] n = "ImportResponse" -> ImportResponse
    [] n = "ImportStatus" -> ImportStatus
    [] n = "DashboardMetrics" -> DashboardMetrics
    [] n = "ApiDashboardMetrics" -> ApiDashboardMetrics
    [] n = "InventoryMetrics" -> InventoryMetrics
    [] n = "SalesMetrics" -> SalesMetrics
    [] n = "SystemMetrics" -> SystemMetrics
    [] n = "PerformanceMetrics" -> PerformanceMetrics
    [] n = "EnrichmentStats" -> EnrichmentStats
    [] n = "EnrichmentStatusResponse" -> EnrichmentStatusResponse
    [] n = "EnrichmentStatsBreakdown" -> EnrichmentStatsBreakdown
    [] n = "EnrichmentResponse" -> EnrichmentResponse
    [] n = "PricingRequest" -> PricingRequest
    [] n = "PricingRecommendation" -> PricingRecommendation
    [] n = "MarketAnalysis" -> MarketAnalysis
    [] n = "PricingInsights" -> PricingInsights
    [] n = "PricingInsightsSummary" -> PricingInsightsSummary
    [] n = "ForecastRequest" -> ForecastRequest
    [] n = "SalesForecast" -> SalesForecast
    [] n = "ForecastAnalysis" -> ForecastAnalysis
    [] n = "MarketTrend" -> MarketTrend
    [] n = "PredictiveInsights" -> PredictiveInsights
    [] n = "BusinessMetrics" -> BusinessMetrics
    [] n = "SmartPricingOptimization" -> SmartPricingOptimization
    [] n = "PricingOptimizationRecommendation" -> PricingOptimizationRecommendation
    [] n = "AutoRepricingStatus" -> AutoRepricingStatus
    [] n = "MarketTrendData" -> MarketTrendData
    [] n = "AutoListingStatus" -> AutoListingStatus
    [] n = "ListingRule" -> ListingRule
    [] n = "AutoListingExecution" -> AutoListingExecution
    [] n = "ListingCreated" -> ListingCreated
    [] n = "AutoListingSimulation" -> AutoListingSimulation
    [] n = "SimulatedListingItem" -> SimulatedListingItem
    [] n = "RuleToggleResponse" -> RuleToggleResponse
    [] n = "DeadStockSummary" -> DeadStockSummary
    [] n = "DeadStockFinancialImpact" -> DeadStockFinancialImpact
    [] n = "DeadStockItem" -> DeadStockItem
    [] n = "DeadStockAnalysis" -> DeadStockAnalysis
    [] n = "DeadStockDetailedFinancialImpact" -> DeadStockDetailedFinancialImpact
    [] n = "ClearanceExecution" -> ClearanceExecution
    [] n = "ClearanceAction" -> ClearanceAction
    [] n = "ClearanceProjection" -> ClearanceProjection
    [] n = "RiskLevelDefinitions" -> RiskLevelDefinitions
    [] n = "RiskLevelDefinition" -> RiskLevelDefinition
    [] n = "DeadStockTrends" -> DeadStockTrends
    [] n = "DeadStockTrendData" -> DeadStockTrendData
    [] n = "DeadStockInsights" -> DeadStockInsights
    [] n = "PredictiveInsight" -> PredictiveInsight
    [] n = "InventoryForecast" -> InventoryForecast
    [] n = "RestockRecommendation" -> RestockRecommendation
    [] n = "PredictiveInsightsSummary" -> PredictiveInsightsSummary
    [] n = "SystemStatus" -> SystemStatus
    [] n = "StockXListingRequest" -> StockXListingRequest
    [] n = "StockXListingResponse" -> StockXListingResponse

(***************************************************************************)
(* serde's Deserialize, as derived for the contracts, from a JSON value.   *)
(***************************************************************************)
I32Min == -2147483647 - 1
I32Max == 2147483647

DigitText == <<"0", "1", "2", "3", "4", "5", "6", "7", "8", "9">>

Digit == {DigitText[v] : v \in 1..10}

\* f32::MANTISSA_DIGITS is 24: every whole number of halves below 2^24 is
\* an f32
F32Exact == 16777216

SecondsPerDay == 86400

\* the number a text of one or more digits writes
RECURSIVE Number(_)
Number(s) ==
  IF s = <<>> THEN 0
  ELSE 10 * Number(SubSeq(s, 1, Len(s) - 1))
         + (CHOOSE v \in 0..9 : DigitText[v + 1] = s[Len(s)])

IsLeap(y) == (y % 4 = 0 /\ y % 100 # 0) \/ y % 400 = 0

DaysIn(y, mo) ==
  IF mo = 2 THEN (IF IsLeap(y) THEN 29 ELSE 28)
  ELSE IF mo \in {4, 6, 9, 11} THEN 30 ELSE 31

\* DateTime<Utc>: an RFC 3339 date-time with a zone, yyyy-mm-ddThh:mm:ss
\* followed by Z or by +hh:mm / -hh:mm (fractional seconds are left out).
IsRfc3339(s) ==
  /\ Len(s) \in {20, 25}
  /\ \A i \in {1, 2, 3, 4, 6, 7, 9, 10, 12, 13, 15, 16, 18, 19} : s[i] \in Digit
  /\ s[5] = "-" /\ s[8] = "-" /\ s[11] \in {"T", "t", " "}
  /\ s[14] = ":" /\ s[17] = ":"
  /\ IF Len(s) = 20 THEN s[20] \in {"Z", "z"}
     ELSE /\ s[20] \in {"+", "-"}
          /\ s[21] \in Digit /\ s[22] \in Digit /\ s[23] = ":"
          /\ s[24] \in Digit /\ s[25] \in Digit
          /\ Number(SubSeq(s, 21, 22)) <= 23
          /\ Number(SubSeq(s, 24, 25)) <= 59
  /\ Number(SubSeq(s, 6, 7)) \in 1..12
  /\ Number(SubSeq(s, 9, 10)) \in
       1..DaysIn(Number(SubSeq(s, 1, 4)), Number(SubSeq(s, 6, 7)))
  /\ Number(SubSeq(s, 12, 13)) <= 23
  /\ Number(SubSeq(s, 15, 16)) <= 59
  /\ Number(SubSeq(s, 18, 19)) <= 59

KeysOf(fs) == {fs[i].key : i \in 1..Len(fs)}

FieldAt(fs, key) == fs[CHOOSE i \in 1..Len(fs) : fs[i].key = key]

RECURSIVE Conforms(_, _)

\* a Deserialize that looks at the required fields only
ConformsStruct_required_only(fs, j) ==
  /\ j.t = "obj"
  /\ \A i \in 1..Len(fs) :
       (fs[i].ty.k # "opt" /\ ~fs[i].dflt)
         => /\ fs[i].key \in DOMAIN j.o
            /\ Conforms(fs[i].ty, j.o[fs[i].key])

\* the derived Deserialize of a struct with the fields fs: visit_map takes
\* an object (a missing field must be an Option or carry serde(default)),
\* visit_seq an array of the fields in order
ConformsStruct(fs, j) ==
  \/ /\ j.t = "obj"
     /\ \A i \in 1..Len(fs) :
          IF fs[i].key \in DOMAIN j.o
            THEN Conforms(fs[i].ty, j.o[fs[i].key])
            ELSE fs[i].ty.k = "opt" \/ fs[i].dflt
  \/ /\ j.t = "arr"
     /\ Len(j.a) = Len(fs)
     /\ \A i \in 1..Len(fs) : Conforms(fs[i].ty, j.a[i])

\* whether the JSON value j deserializes as the type ty
Conforms(ty, j) ==
  CASE ty.k = "str" -> j.t = "str"
    [] ty.k = "i32" -> j.t = "int" /\ j.n >= I32Min /\ j.n <= I32Max
    [] ty.k = "i64" -> j.t = "int"
    [] ty.k = "u64" -> j.t = "int" /\ j.n >= 0
    [] ty.k \in {"f64", "f32"} -> j.t \in {"int", "float"}
    [] ty.k = "bool" -> j.t = "bool"
    [] ty.k = "uuid" -> j.t = "str" /\ parse_str(j.s).some
    [] ty.k = "date" -> j.t = "str" /\ IsRfc3339(j.s)
    [] ty.k = "value" -> TRUE
    [] ty.k = "opt" -> j.t = "null" \/ Conforms(ty.of, j)
    [] ty.k = "vec" ->
         j.t = "arr" /\ \A i \in 1..Len(j.a) : Conforms(ty.of, j.a[i])
    [] ty.k = "map" ->
         j.t = "obj" /\ \A key \in DOMAIN j.o : Conforms(ty.of, j.o[key])
    [] ty.k = "struct" -> ConformsStruct(Fields(ty.name), j)

\* Default::default() of a field type
DefaultOf(ty) ==
  CASE ty.k \in {"f64", "f32"} -> JFloat(0)
    [] ty.k \in {"i32", "i64", "u64"} -> JInt(0)
    [] ty.k = "str" -> JStr(<<>>)
    [] ty.k = "bool" -> JBool(FALSE)
    [] OTHER -> JNull

\* `as f32`: the nearest number with a significand of 24 bits, ties to the
\* even one.  Numbers are counted in halves, so below 2^24 halves every
\* one is an f32 and above the step doubles with every doubling.
RECURSIVE F32Step(_)
F32Step(m) ==
  IF m < F32Exact /\ -m < F32Exact THEN 1 ELSE 2 * F32Step(m \div 2)

F32Near(m, q) ==
  IF 2 * (m % q) < q THEN m - (m % q)
  ELSE IF 2 * (m % q) > q THEN m - (m % q) + q
  ELSE IF ((m - (m % q)) \div q) % 2 = 0 THEN m - (m % q)
  ELSE m - (m % q) + q

as_f32(m) == F32Near(m, F32Step(m))

\* the halves in a JSON number
Halves(j) == IF j.t = "int" THEN 2 * j.n ELSE j.x

\* the day before and the day after
PrevDay(t) ==
  IF t.d > 1 THEN [t EXCEPT !.d = t.d - 1]
  ELSE IF t.mo > 1
    THEN [t EXCEPT !.mo = t.mo - 1, !.d = DaysIn(t.y, t.mo - 1)]
  ELSE [t EXCEPT !.y = t.y - 1, !.mo = 12, !.d = 31]

NextDay(t) ==
  IF t.d < DaysIn(t.y, t.mo) THEN [t EXCEPT !.d = t.d + 1]
  ELSE IF t.mo < 12 THEN [t EXCEPT !.mo = t.mo + 1, !.d = 1]
  ELSE [t EXCEPT !.y = t.y + 1, !.mo = 1, !.d = 1]

\* with_timezone(&Utc): the seconds of the day brought back into the day
InUtc(t) ==
  IF t.sec < 0 THEN PrevDay([t EXCEPT !.sec = t.sec + SecondsPerDay])
  ELSE IF t.sec >= SecondsPerDay
    THEN NextDay([t EXCEPT !.sec = t.sec - SecondsPerDay])
  ELSE t

\* the offset in seconds that the zone of an RFC 3339 text writes
OffsetOf(s) ==
  IF Len(s) = 20 THEN 0
  ELSE (IF s[20] = "-" THEN -1 ELSE 1)
         * (3600 * Number(SubSeq(s, 21, 22)) + 60 * Number(SubSeq(s, 24, 25)))

\* DateTime::<Utc>::deserialize of a conforming text: the instant in UTC
DateOf(s) ==
  InUtc([t |-> "date",
         y |-> Number(SubSeq(s, 1, 4)), mo |-> Number(SubSeq(s, 6, 7)),
         d |-> Number(SubSeq(s, 9, 10)),
         sec |-> 3600 * Number(SubSeq(s, 12, 13))
                   + 60 * Number(SubSeq(s, 15, 16))
                   + Number(SubSeq(s, 18, 19)) - OffsetOf(s)])

RECURSIVE Decoded(_, _)

\* the struct with the fields fs that a conforming j deserializes to
DecodedStruct(fs, j) ==
  LET at(f) == CHOOSE i \in 1..Len(fs) : fs[i].field = f IN
  JObj([f \in {fs[i].field : i \in 1..Len(fs)} |->
    IF j.t = "arr" THEN Decoded(fs[at(f)].ty, j.a[at(f)])
    ELSE IF fs[at(f)].key \in DOMAIN j.o
      THEN Decoded(fs[at(f)].ty, j.o[fs[at(f)].key])
    ELSE IF fs[at(f)].dflt THEN DefaultOf(fs[at(f)].ty)
    ELSE JNull])

\* the typed value a conforming JSON value deserializes to: an f64 is always
\* a float (JFloat(m) is m/2), a Uuid its 32 digits, None is null, a struct
\* the function from its field names
Decoded(ty, j) ==
  CASE ty.k = "f64" -> JFloat(Halves(j))
    [] ty.k = "f32" -> JFloat(as_f32(Halves(j)))
    [] ty.k = "date" -> DateOf(j.s)
    [] ty.k = "uuid" -> [t |-> "uuid", u |-> parse_str(j.s).v]
    [] ty.k = "opt" -> IF j.t = "null" THEN JNull ELSE Decoded(ty.of, j)
    [] ty.k = "vec" -> JArr([i \in 1..Len(j.a) |-> Decoded(ty.of, j.a[i])])
    [] ty.k = "map" ->
         JObj([key \in DOMAIN j.o |-> Decoded(ty.of, j.o[key])])
    [] ty.k = "struct" -> DecodedStruct(Fields(ty.name), j)
    [] OTHER -> j

\* n written with two digits, and with four
Two(n) == <<DigitText[((n \div 10) % 10) + 1], DigitText[(n % 10) + 1]>>
Four(n) == Two(n \div 100) \o Two(n % 100)

\* Serialize of a DateTime<Utc>: RFC 3339 in UTC, written with Z
DateText(t) ==
  Four(t.y) \o <<"-">> \o Two(t.mo) \o <<"-">> \o Two(t.d) \o <<"T">>
    \o Two(t.sec \div 3600) \o <<":">> \o Two((t.sec \div 60) % 60)
    \o <<":">> \o Two(t.sec % 60) \o <<"Z">>

RECURSIVE Encoded(_, _)

\* the derived Serialize of a struct with the fields fs: an object keyed by
\* the names the fields are written under
EncodedStruct(fs, d) ==
  JObj([key \in KeysOf(fs) |->
          Encoded(FieldAt(fs, key).ty, d.o[FieldAt(fs, key).field])])

\* Serialize: the JSON value the typed value d of type ty is written as
Encoded(ty, d) ==
  CASE ty.k = "uuid" -> JStr(UuidText(d.u))
    [] ty.k = "date" -> JStr(DateText(d))
    [] ty.k = "opt" -> IF d.t = "null" THEN JNull ELSE Encoded(ty.of, d)
    [] ty.k = "vec" -> JArr([i \in 1..Len(d.a) |-> Encoded(ty.of, d.a[i])])
    [] ty.k = "map" ->
         JObj([key \in DOMAIN d.o |-> Encoded(ty.of, d.o[key])])
    [] ty.k = "struct" -> EncodedStruct(Fields(ty.name), d)
    [] OTHER -> d

\* a from_value that leaves out the elements of an array it cannot decode
from_value_skipping(ty, j) ==
  IF ty.k = "vec" /\ j.t = "arr"
    THEN [ok |-> TRUE,
          val |-> Decoded(ty, JArr(SelectSeq(j.a,
                                   LAMBDA e : Conforms(ty.of, e))))]
  ELSE IF Conforms(ty, j) THEN [ok |-> TRUE, val |-> Decoded(ty, j)]
  ELSE [ok |-> FALSE, err |-> "error decoding response body"]

\* serde_json::from_value::<T> / Response::json::<T> on a parsed body
from_value(ty, j) ==
  IF Conforms(ty, j) THEN [ok |-> TRUE, val |-> Decoded(ty, j)]
  ELSE [ok |-> FALSE, err |-> "error decoding response body"]

(***************************************************************************)
(* The command surface (commands.rs): each command function calls one      *)
(* method of a client it builds itself and writes the method's error       *)
(* behind its own prefix.  get_system_status writes no error, and          *)
(* http_request, which uses no ApiClient, is modelled apart.               *)
(***************************************************************************)
CommandTable ==
  [health_check |->
     [client |-> "health_check", prefix |-> "Health check failed: "],
   get_inventory_items |->
     [client |-> "get_inventory_items",
      prefix |-> "Failed to fetch inventory: "],
   get_product_stats |->
     [client |-> "get_product_stats",
      prefix |-> "Failed to fetch product stats: "],
   import_stockx_data |->
     [client |-> "import_stockx_data", prefix |-> "Failed to start import: "],
   get_import_status |->
     [client |-> "get_import_status",
      prefix |-> "Failed to fetch import status: "],
   get_dashboard_metrics |->
     [client |-> "get_dashboard_metrics",
      prefix |-> "Failed to fetch dashboard metrics: "],
   run_database_query |->
     [client |-> "run_database_query", prefix |-> "Query failed: "],
   export_data_csv |->
     [client |-> "export_data_csv", prefix |-> "Export failed: "],
   get_system_status |->
     [client |-> "health_check", prefix |-> ""],
   get_enrichment_status |->
     [client |-> "get_enrichment_status",
      prefix |-> "Failed to fetch enrichment status: "],
   start_product_enrichment |->
     [client |-> "start_product_enrichment",
      prefix |-> "Failed to start product enrichment: "],
   get_pricing_recommendation |->
     [client |-> "get_pricing_recommendation",
      prefix |-> "Failed to get pricing recommendation: "],
   get_market_analysis |->
     [client |-> "get_market_analysis",
      prefix |-> "Failed to get market analysis: "],
   get_pricing_insights |->
     [client |-> "get_pricing_insights",
      prefix |-> "Failed to get pricing insights: "],
   get_pricing_strategies |->
     [client |-> "get_pricing_strategies",
      prefix |-> "Failed to get pricing strategies: "],
   generate_sales_forecast |->
     [client |-> "generate_sales_forecast",
      prefix |-> "Failed to generate sales forecast: "],
   get_market_trends |->
     [client |-> "get_market_trends",
      prefix |-> "Failed to get market trends: "],
   get_forecast_models |->
     [client |-> "get_forecast_models",
      prefix |-> "Failed to get forecast models: "],
   create_stockx_listing |->
     [client |-> "create_stockx_listing",
      prefix |-> "Failed to create StockX listing: "],
   get_stockx_listings |->
     [client |-> "get_stockx_listings",
      prefix |-> "Failed to get StockX listings: "],
   get_alias_listings |->
     [client |-> "get_alias_listings",
      prefix |-> "Failed to get Alias listings: "],
   sync_inventory_from_stockx |->
     [client |-> "sync_inventory_from_stockx",
      prefix |-> "Failed to sync inventory from StockX: "],
   optimize_inventory_pricing |->
     [client |-> "optimize_inventory_pricing",
      prefix |-> "Failed to optimize inventory pricing: "],
   get_auto_repricing_status |->
     [client |-> "get_auto_repricing_status",
      prefix |-> "Failed to get auto-repricing status: "],
   toggle_auto_repricing |->
     [client |-> "toggle_auto_repricing",
      prefix |-> "Failed to toggle auto-repricing: "],
   get_smart_market_trends |->
     [client |-> "get_smart_market_trends",
      prefix |-> "Failed to get smart market trends: "],
   get_auto_listing_status |->
     [client |-> "get_auto_listing_status",
      prefix |-> "Failed to get auto-listing status: "],
   execute_auto_listing |->
     [client |-> "execute_auto_listing",
      prefix |-> "Failed to execute auto-listing: "],
   simulate_auto_listing |->
     [client |-> "simulate_auto_listing",
      prefix |-> "Failed to simulate auto-listing: "],
   toggle_listing_rule |->
     [client |-> "toggle_listing_rule",
      prefix |-> "Failed to toggle listing rule: "],
   get_dead_stock_summary |->
     [client |-> "get_dead_stock_summary",
      prefix |-> "Failed to get dead stock summary: "],
   analyze_dead_stock |->
     [client |-> "analyze_dead_stock",
      prefix |-> "Failed to analyze dead stock: "],
   execute_clearance |->
     [client |-> "execute_clearance",
      prefix |-> "Failed to execute clearance: "],
   get_risk_level_definitions |->
     [client |-> "get_risk_level_definitions",
      prefix |-> "Failed to get risk level definitions: "],
   get_dead_stock_trends |->
     [client |-> "get_dead_stock_trends",
      prefix |-> "Failed to get dead stock trends: "],
   get_predictive_insights |->
     [client |-> "get_predictive_insights",
      prefix |-> "Failed to get predictive insights: "],
   get_inventory_forecasts |->
     [client |-> "get_inventory_forecasts",
      prefix |-> "Failed to get inventory forecasts: "],
   get_restock_recommendations |->
     [client |-> "get_restock_recommendations",
      prefix |-> "Failed to get restock recommendations: "],
   get_predictive_insights_summary |->
     [client |-> "get_predictive_insights_summary",
      prefix |-> "Failed to get predictive insights summary: "]]

(***************************************************************************)
(* The transport client (impl ApiClient): each method's HTTP verb, the     *)
(* literal head of its path and the type it reads the body as.  The        *)
(* analytics get_predictive_insights (api.rs:815), which no command calls  *)
(* and which shares its name with the pricing one (api.rs:1034), is listed *)
(* as get_predictive_insights_analytics.                                   *)
(***************************************************************************)
ApiClient ==
  [health_check |->
     [verb |-> "GET", path |-> "/health",
      ty |-> TStruct("HealthStatus")],
   get_inventory_items |->
     [verb |-> "GET", path |-> "/api/v1/inventory",
      ty |-> TValue],
   get_product_stats |->
     [verb |-> "GET", path |-> "/api/v1/products/stats",
      ty |-> TStruct("ProductStats")],
   import_stockx_data |->
     [verb |-> "POST", path |-> "/api/v1/integration/stockx/import",
      ty |-> TStruct("ImportResponse")],
   get_import_status |->
     [verb |-> "GET", path |-> "/api/v1/integration/import/",
      ty |-> TStruct("ImportStatus")],
   get_dashboard_metrics |->
     [verb |-> "GET", path |-> "/api/v1/dashboard/metrics",
      ty |-> TStruct("ApiDashboardMetrics")],
   run_database_query |->
     [verb |-> "POST", path |-> "/api/v1/admin/query",
      ty |-> TVec(TMap(TValue))],
   export_data_csv |->
     [verb |-> "GET", path |-> "/api/v1/export/csv/",
      ty |-> TStr],
   get_enrichment_status |->
     [verb |-> "GET", path |-> "/api/v1/products/enrichment/status",
      ty |-> TStruct("EnrichmentStatusResponse")],
   start_product_enrichment |->
     [verb |-> "POST", path |-> "/api/v1/products/enrich",
      ty |-> TStruct("EnrichmentResponse")],
   get_pricing_recommendation |->
     [verb |-> "POST", path |-> "/api/v1/pricing/recommend",
      ty |-> TStruct("PricingRecommendation")],
   get_market_analysis |->
     [verb |-> "GET", path |-> "/api/v1/pricing/market-analysis/",
      ty |-> TStruct("MarketAnalysis")],
   get_pricing_insights |->
     [verb |-> "GET", path |-> "/api/v1/pricing/insights",
      ty |-> TStruct("PricingInsights")],
   get_pricing_strategies |->
     [verb |-> "GET", path |-> "/api/v1/pricing/strategies",
      ty |-> TMap(TValue)],
   generate_sales_forecast |->
     [verb |-> "POST", path |-> "/api/v1/analytics/forecast/sales",
      ty |-> TStruct("ForecastAnalysis")],
   get_market_trends |->
     [verb |-> "GET", path |-> "/api/v1/analytics/trends/market",
      ty |-> TVec(TStruct("MarketTrend"))],
   get_forecast_models |->
     [verb |-> "GET", path |-> "/api/v1/analytics/models",
      ty |-> TMap(TValue)],
   get_predictive_insights_analytics |->
     [verb |-> "GET", path |-> "/api/v1/analytics/insights/predictive",
      ty |-> TStruct("PredictiveInsights")],
   get_stockx_listings |->
     [verb |-> "GET", path |-> "/api/v1/inventory/stockx-listings",
      ty |-> TValue],
   create_stockx_listing |->
     [verb |-> "POST", path |-> "/api/v1/inventory/items/",
      ty |-> TStruct("StockXListingResponse")],
   get_alias_listings |->
     [verb |-> "GET", path |-> "/api/v1/inventory/alias-listings",
      ty |-> TValue],
   sync_inventory_from_stockx |->
     [verb |-> "POST", path |-> "/api/v1/inventory/sync-from-stockx",
      ty |-> TValue],
   get_system_status |->
     [verb |-> "GET", path |-> "/api/v1/system/status",
      ty |-> TStruct("SystemStatus")],
   optimize_inventory_pricing |->
     [verb |-> "POST", path |-> "/api/v1/pricing/smart/optimize-inventory",
      ty |-> TStruct("SmartPricingOptimization")],
   get_auto_repricing_status |->
     [verb |-> "GET", path |-> "/api/v1/pricing/smart/auto-repricing/status",
      ty |-> TStruct("AutoRepricingStatus")],
   toggle_auto_repricing |->
     [verb |-> "POST", path |-> "/api/v1/pricing/smart/auto-repricing/toggle",
      ty |-> TMap(TValue)],
   get_smart_market_trends |->
     [verb |-> "GET", path |-> "/api/v1/pricing/smart/market-trends",
      ty |-> TStruct("MarketTrendData")],
   get_auto_listing_status |->
     [verb |-> "GET", path |-> "/api/v1/pricing/auto-listing/status",
      ty |-> TStruct("AutoListingStatus")],
   execute_auto_listing |->
     [verb |-> "POST", path |-> "/api/v1/pricing/auto-listing/execute",
      ty |-> TStruct("AutoListingExecution")],
   simulate_auto_listing |->
     [verb |-> "POST", path |-> "/api/v1/pricing/auto-listing/simulate",
      ty |-> TStruct("AutoListingSimulation")],
   toggle_listing_rule |->
     [verb |-> "POST", path |-> "/api/v1/pricing/auto-listing/toggle-rule",
      ty |-> TStruct("RuleToggleResponse")],
   get_dead_stock_summary |->
     [verb |-> "GET", path |-> "/api/v1/pricing/dead-stock/summary",
      ty |-> TStruct("DeadStockSummary")],
   analyze_dead_stock |->
     [verb |-> "POST", path |-> "/api/v1/pricing/dead-stock/analyze",
      ty |-> TStruct("DeadStockAnalysis")],
   execute_clearance |->
     [verb |-> "POST", path |-> "/api/v1/pricing/dead-stock/clearance",
      ty |-> TStruct("ClearanceExecution")],
   get_risk_level_definitions |->
     [verb |-> "GET", path |-> "/api/v1/pricing/dead-stock/risk-levels",
      ty |-> TStruct("RiskLevelDefinitions")],
   get_dead_stock_trends |->
     [verb |-> "GET", path |-> "/api/v1/pricing/dead-stock/trends",
      ty |-> TStruct("DeadStockTrends")],
   get_predictive_insights |->
     [verb |-> "GET", path |-> "/api/v1/pricing/predictive/insights",
      ty |-> TVec(TStruct("PredictiveInsight"))],
   get_inventory_forecasts |->
     [verb |-> "GET", path |-> "/api/v1/pricing/predictive/forecasts",
      ty |-> TVec(TStruct("InventoryForecast"))],
   get_restock_recommendations |->
     [verb |-> "GET",
      path |-> "/api/v1/pricing/predictive/restock-recommendations",
      ty |-> TVec(TStruct("RestockRecommendation"))],
   get_predictive_insights_summary |->
     [verb |-> "GET", path |-> "/api/v1/pricing/predictive/summary",
      ty |-> TStruct("PredictiveInsightsSummary")]]

Commands == DOMAIN CommandTable \cup {"http_request"}

\* the base address every command function gives its client
\* another port
base_url_9000 ==
  <<"h", "t", "t", "p", ":", "/", "/", "l", "o", "c", "a", "l", "h", "o", "s",
    "t", ":", "9", "0", "0", "0">>

base_url ==
  <<"h", "t", "t", "p", ":", "/", "/", "l", "o", "c", "a", "l", "h", "o", "s",
    "t", ":", "8", "0", "0", "0">>

(***************************************************************************)
(* Text and small helpers for building URLs.                               *)
(***************************************************************************)
\* Display of an f64 given in halves: 4 is "2", 3 is "1.5"
F64Text(m) ==
  IF m % 2 = 0 THEN <<ToString(m \div 2)>> ELSE <<ToString(m \div 2), ".5">>

\* the sequences that list every element of the finite set S once
Orders(S) ==
  {q \in [1..Cardinality(S) -> S] :
     \A i, j \in 1..Cardinality(S) : i # j => q[i] # q[j]}

\* [String]::join: the parts with sep between them
RECURSIVE join(_, _)
join(parts, sep) ==
  IF parts = <<>> THEN <<>>
  ELSE IF Len(parts) = 1 THEN parts[1]
  ELSE parts[1] \o <<sep>> \o join(Tail(parts), sep)

\* a query string that is begun whether there are params or not
WithParams_always(url, params) == url \o <<"?">> \o join(params, "&")

\* "?" and the joined params behind url, when there are any
WithParams(url, params) ==
  IF params = <<>> THEN url ELSE url \o <<"?">> \o join(params, "&")

\* status= and limit= of the two marketplace listing methods
ListingParams(a) ==
  (IF a.status.some THEN << <<"status=">> \o a.status.v >> ELSE <<>>)
    \o (IF a.limit.some THEN << <<"limit=", ToString(a.limit.v)>> >> ELSE <<>>)

(***************************************************************************)
(* The URL a client method requests, as the set of the URLs it may build:  *)
(* a HashMap is iterated in an unspecified order, so export_data_csv may   *)
(* write its filters in any order.                                         *)
(***************************************************************************)
ApiClient_url(m, a) ==
  LET url == base_url \o <<ApiClient[m].path>> IN
  CASE m \in {"get_inventory_items"} ->
         {IF a.limit.some
            THEN url \o <<"?limit=", ToString(a.limit.v)>> ELSE url}
    [] m = "get_import_status" ->
         {url \o UuidText(a.batch_id) \o <<"/status">>}
    [] m = "export_data_csv" ->
         IF a.filters.some
           THEN {WithParams(url \o a.table,
                   [i \in 1..Len(q) |->
                      <<q[i], "=">> \o a.filters.v[q[i]]]) :
                 q \in Orders(DOMAIN a.filters.v)}
           ELSE {url \o a.table}
    [] m = "start_product_enrichment" ->
         {IF a.product_ids.some
            THEN WithParams(url,
                   [i \in 1..Len(a.product_ids.v) |->
                      <<"product_ids=">> \o a.product_ids.v[i]])
            ELSE url}
    [] m = "get_market_analysis" -> {url \o a.product_id}
    [] m = "get_market_trends" ->
         {IF a.days_back.some
            THEN url \o <<"?days_back=", ToString(a.days_back.v)>> ELSE url}
    [] m \in {"get_stockx_listings", "get_alias_listings"} ->
         {WithParams(url, ListingParams(a))}
    [] m = "create_stockx_listing" ->
         {url \o a.request.o.item_id.s \o <<"/stockx-listing">>}
    [] m = "optimize_inventory_pricing" ->
         {url \o <<"?strategy=">> \o a.strategy
              \o <<"&limit=", ToString(a.limit)>>}
    [] m = "simulate_auto_listing" ->
         {url \o <<"?max_items=", ToString(a.max_items)>>
              \o (IF a.rule_name.some
                    THEN <<"&rule_name=">> \o a.rule_name.v ELSE <<>>)}
    [] m = "get_predictive_insights" ->
         {url \o <<"?days_ahead=", ToString(a.days_ahead),
                   "&limit=", ToString(a.limit)>>
              \o (IF a.insight_types.some
                    THEN <<"&insight_types=">> \o a.insight_types.v
                    ELSE <<>>)}
    [] m = "get_inventory_forecasts" ->
         {url \o <<"?horizon_days=", ToString(a.horizon_days)>>
              \o (IF a.product_ids.some
                    THEN <<"&product_ids=">> \o a.product_ids.v ELSE <<>>)}
    [] m = "get_restock_recommendations" ->
         {url \o <<"?min_roi=">> \o F64Text(a.min_roi)
              \o <<"&max_products=", ToString(a.max_products)>>
              \o (IF a.investment_budget.some
                    THEN <<"&investment_budget=">>
                           \o F64Text(a.investment_budget.v)
                    ELSE <<>>)}
    [] OTHER -> {url}

\* Option<String> / Option<f64> as serde_json::json! writes it
OptStr(x) == IF x.some THEN JStr(x.v) ELSE JNull

\* the JSON body a client method sends, None when it sends none
ApiClient_body(m, a) ==
  CASE m \in {"import_stockx_data", "get_pricing_recommendation",
              "generate_sales_forecast"} -> Some(a.request)
    [] m = "run_database_query" -> Some(JObj([query |-> JStr(a.query)]))
    [] m = "create_stockx_listing" ->
         Some(JObj([listing_type |-> a.request.o.listing_type]))
    [] m = "toggle_auto_repricing" ->
         Some(JObj([enabled |-> JBool(a.enabled)]))
    [] m = "execute_auto_listing" ->
         Some(JObj([max_items |-> JInt(a.max_items),
                    dry_run |-> JBool(a.dry_run)]))
    [] m = "toggle_listing_rule" ->
         Some(JObj([rule_name |-> JStr(a.rule_name),
                    active |-> JBool(a.active)]))
    [] m = "analyze_dead_stock" ->
         Some(JObj([brand_filter |-> OptStr(a.brand_filter),
                    category_filter |-> OptStr(a.category_filter),
                    min_risk_score |-> JFloat(a.min_risk_score)]))
    [] m = "execute_clearance" ->
         Some(JObj([risk_levels |->
                      JArr([i \in 1..Len(a.risk_levels) |->
                              JStr(a.risk_levels[i])]),
                    max_items |-> JInt(a.max_items),
                    dry_run |-> JBool(a.dry_run)]))
    [] OTHER -> None

\* the requests a client method may send: one per URL it may build
ApiClient_request(m, a) ==
  {[verb |-> ApiClient[m].verb, url |-> u, body |-> ApiClient_body(m, a)] :
     u \in ApiClient_url(m, a)}

(***************************************************************************)
(* What the network gives a request: no response at all (send fails), a    *)
(* response whose body cannot be read, or a status with a body.  A body is *)
(* the text of a JSON value ([json |-> v]) or text that is no JSON         *)
(* ([text |-> ...]).                                                       *)
(***************************************************************************)
SendError == [kind |-> "send_error"]
\* the request was never built (its URL does not parse): send() fails at once
BuilderError == [kind |-> "builder_error"]
BodyError(st) == [kind |-> "body_error", status |-> st]
Response(st, b) == [kind |-> "body", status |-> st, body |-> b]

IsSuccess(st) == st >= 200 /\ st <= 299

Ok(v) == [ok |-> TRUE, val |-> v]
Err(e) == [ok |-> FALSE, err |-> e]

\* a reading of the body that gives null for a body of another shape
response_json_or_null(ty, r) ==
  IF r.kind # "body" THEN Err("error sending request")
  ELSE IF "json" \notin DOMAIN r.body
    THEN Err("error decoding response body")
  ELSE IF Conforms(ty, r.body.json)
    THEN [ok |-> TRUE, val |-> Decoded(ty, r.body.json)]
  ELSE [ok |-> TRUE, val |-> JNull]

\* self.client.<verb>(&url).send().await? then response.json::<T>().await?:
\* the status of the response is not looked at
response_json(ty, r) ==
  IF r.kind = "builder_error" THEN Err("builder error")
  ELSE IF r.kind = "send_error" THEN Err("error sending request")
  ELSE IF r.kind = "body_error" THEN Err("error reading response body")
  ELSE IF "json" \notin DOMAIN r.body
    THEN Err("error decoding response body")
  ELSE from_value(ty, r.body.json)

\* send().await? then response.text().await?
response_text(r) ==
  IF r.kind = "builder_error" THEN Err("builder error")
  ELSE IF r.kind = "send_error" THEN Err("error sending request")
  ELSE IF r.kind = "body_error" THEN Err("error reading response body")
  ELSE Ok([t |-> "text", of |-> r.body])

InventoryItems == TVec(TStruct("InventoryItem"))

\* a match that hands the decode error on
items_or_error(items) == items

\* match serde_json::from_value::<Vec<InventoryItem>>(..)
\*   { Ok(items) => Ok(items), Err(e) => Ok(vec![]) }
items_or_empty(items) == IF items.ok THEN items ELSE Ok(JArr(<<>>))

\* a get_inventory_items that never looks for `items`
inventory_items_of_whole_body(response_json_) ==
  IF ~response_json_.ok THEN response_json_
  ELSE items_or_empty(from_value(InventoryItems, response_json_.val))

\* get_inventory_items once the body is read as response_json_
inventory_items_of(response_json_) ==
  IF ~response_json_.ok THEN response_json_
  ELSE IF Get(response_json_.val, "items").some
    THEN items_or_empty(from_value(InventoryItems,
                                   Get(response_json_.val, "items").v))
    ELSE items_or_empty(from_value(InventoryItems, response_json_.val))

ApiClient_get_inventory_items(r) ==
  inventory_items_of(response_json(TValue, r))

\* a filter_map that drops the elements that are no objects
ListingMaps_dropping(listings) ==
  JArr(SelectSeq(listings, LAMBDA v : v.t = "obj"))

\* listings.iter().map(..): an object gives the map of its members, any
\* other element the empty map
ListingMaps(listings) ==
  JArr([i \in 1..Len(listings) |->
          IF listings[i].t = "obj" THEN listings[i] ELSE JObj(NoKeys)])

\* a reading of the listings that fails when there is no array
listings_of_strict(data) ==
  IF ~data.ok THEN data
  ELSE IF Index(Index(data.val, "data"), "listings").t = "arr"
    THEN Ok(ListingMaps(Index(Index(data.val, "data"), "listings").a))
  ELSE Err("error decoding response body")

\* data["data"]["listings"].as_array(), mapped, or the empty vector
listings_of(data) ==
  IF ~data.ok THEN data
  ELSE IF Index(Index(data.val, "data"), "listings").t = "arr"
    THEN Ok(ListingMaps(Index(Index(data.val, "data"), "listings").a))
  ELSE Ok(JArr(<<>>))

ApiClient_get_stockx_listings(r) == listings_of(response_json(TValue, r))

ApiClient_get_alias_listings(r) == listings_of(response_json(TValue, r))

\* data.as_object() cloned into a map, or the empty map
sync_result_of(data) ==
  IF ~data.ok THEN data
  ELSE Ok(IF data.val.t = "obj" THEN data.val ELSE JObj(NoKeys))

ApiClient_sync_inventory_from_stockx(r) ==
  sync_result_of(response_json(TValue, r))

\* a conversion that takes the listings from items_in_stock
dashboard_metrics_of_items_in_stock(api_metrics) ==
  IF ~api_metrics.ok THEN api_metrics
  ELSE Ok(JObj(
    [total_inventory_value |->
       api_metrics.val.o.inventory.o.total_inventory_value,
     monthly_sales |-> JFloat(0),
     profit_margin |-> JFloat(0),
     active_listings |-> api_metrics.val.o.inventory.o.items_in_stock,
     pending_imports |-> JInt(0),
     recent_transactions |-> api_metrics.val.o.sales.o.recent_activity]))

\* the DashboardMetrics built from the decoded ApiDashboardMetrics
dashboard_metrics_of(api_metrics) ==
  IF ~api_metrics.ok THEN api_metrics
  ELSE Ok(JObj(
    [total_inventory_value |->
       api_metrics.val.o.inventory.o.total_inventory_value,
     monthly_sales |-> JFloat(0),
     profit_margin |-> JFloat(0),
     active_listings |-> api_metrics.val.o.inventory.o.items_listed,
     pending_imports |-> JInt(0),
     recent_transactions |-> api_metrics.val.o.sales.o.recent_activity]))

ApiClient_get_dashboard_metrics(r) ==
  dashboard_metrics_of(response_json(TStruct("ApiDashboardMetrics"), r))

ApiClient_export_data_csv(r) == response_text(r)

\* the Result<T, reqwest::Error> of client method m when the network gives r
ApiClient_result(m, r) ==
  CASE m = "get_inventory_items" -> ApiClient_get_inventory_items(r)
    [] m = "get_stockx_listings" -> ApiClient_get_stockx_listings(r)
    [] m = "get_alias_listings" -> ApiClient_get_alias_listings(r)
    [] m = "sync_inventory_from_stockx" ->
         ApiClient_sync_inventory_from_stockx(r)
    [] m = "get_dashboard_metrics" -> ApiClient_get_dashboard_metrics(r)
    [] m = "export_data_csv" -> ApiClient_export_data_csv(r)
    [] OTHER -> response_json(ApiClient[m].ty, r)

(***************************************************************************)
(* The command functions.                                                  *)
(***************************************************************************)
select == <<"s", "e", "l", "e", "c", "t">>
healthy == <<"h", "e", "a", "l", "t", "h", "y">>
unknown == <<"u", "n", "k", "n", "o", "w", "n">>

\* a check that looks at the first two letters only
run_database_query_gate_two_letters(query) ==
  starts_with(to_lowercase(trim(query)), <<"s", "e">>)

\* run_database_query's security check: TRUE when the query is let through
run_database_query_gate(query) ==
  LET query_trimmed == to_lowercase(trim(query)) IN
  starts_with(query_trimmed, select)

\* http_request's match on method.to_uppercase()
http_request_method(method) ==
  LET upper == to_uppercase(method) IN
  IF upper \in {<<"G", "E", "T">>, <<"P", "O", "S", "T">>, <<"P", "U", "T">>,
                <<"D", "E", "L", "E", "T", "E">>}
    THEN Some(upper) ELSE None

\* what a command returns before it sends anything, None when it goes on
Rejection(c, a) ==
  CASE c = "get_import_status" ->
         IF parse_str(a.batch_id).some THEN None
         ELSE Some(Err(<<"Invalid batch ID: ", "invalid UUID">>))
    [] c = "run_database_query" ->
         IF run_database_query_gate(a.query) THEN None
         ELSE Some(Err(
                <<"Only SELECT queries are allowed for security reasons">>))
    [] c = "http_request" ->
         IF http_request_method(a.method).some THEN None
         ELSE Some(Err(<<"Unsupported HTTP method">>))
    [] OTHER -> None

\* a run_database_query that hands on the text it checked, query_trimmed
ClientArgs_query_trimmed(c, a) ==
  CASE c = "run_database_query" -> [query |-> to_lowercase(trim(a.query))]
    [] c = "get_import_status" -> [batch_id |-> parse_str(a.batch_id).v]
    [] c = "import_stockx_data" ->
         [request |-> JObj([from_date |-> JStr(a.from_date),
                            to_date |-> JStr(a.to_date)])]
    [] c = "create_stockx_listing" ->
         [request |-> JObj([item_id |-> JStr(a.item_id),
                            listing_type |-> JStr(a.listing_type)])]
    [] OTHER -> a

\* the arguments the command function hands to its client method
ClientArgs(c, a) ==
  CASE c = "get_import_status" -> [batch_id |-> parse_str(a.batch_id).v]
    [] c = "import_stockx_data" ->
         [request |-> JObj([from_date |-> JStr(a.from_date),
                            to_date |-> JStr(a.to_date)])]
    [] c = "create_stockx_listing" ->
         [request |-> JObj([item_id |-> JStr(a.item_id),
                            listing_type |-> JStr(a.listing_type)])]
    [] OTHER -> a


http == <<"h", "t", "t", "p">>

\* a full_url that always starts from the base address
http_request_url_always_base(url) == base_url \o url

\* http_request's full_url
http_request_url(url) ==
  IF starts_with(url, http) THEN url ELSE base_url \o url

\* the requests a command may send once it is past Rejection
CommandRequest(c, a) ==
  IF c = "http_request"
    THEN {[verb |-> http_request_method(a.method).v,
           url |-> http_request_url(a.url), body |-> a.body]}
    ELSE ApiClient_request(CommandTable[c].client, ClientArgs(c, a))

\* Utc::now().to_rfc3339() when the clock reads now
NowText(now) == [t |-> "now", at |-> now]

\* a check that is content with any healthy component
database_healthy_any_component(components) ==
  \E name \in DOMAIN components.o :
    /\ Get(components.o[name], "status").some
    /\ Get(components.o[name], "status").v = JStr(healthy)

\* health.components.get("database").and_then(|db| db.get("status"))
\*   .and_then(|status| status.as_str())
\*   .map_or(false, |status| status == "healthy")
database_healthy(components) ==
  /\ Get(components, "database").some
  /\ Get(Get(components, "database").v, "status").some
  /\ Get(Get(components, "database").v, "status").v.t = "str"
  /\ Get(Get(components, "database").v, "status").v.s = healthy

\* a status that stamps last_check itself whatever the health check gave
system_status_of_stamped(health, now) ==
  IF health.ok
    THEN Ok(JObj([api_connected |-> JBool(TRUE),
                  database_healthy |->
                    JBool(database_healthy(health.val.o.components)),
                  last_check |-> NowText(now),
                  version |-> health.val.o.version,
                  environment |-> health.val.o.environment]))
    ELSE Ok(JObj([api_connected |-> JBool(FALSE),
                  database_healthy |-> JBool(FALSE),
                  last_check |-> NowText(now),
                  version |-> JStr(unknown),
                  environment |-> JStr(unknown)]))

\* the match on client.health_check().await
system_status_of(health, now) ==
  IF health.ok
    THEN Ok(JObj([api_connected |-> JBool(TRUE),
                  database_healthy |->
                    JBool(database_healthy(health.val.o.components)),
                  last_check |-> health.val.o.timestamp,
                  version |-> health.val.o.version,
                  environment |-> health.val.o.environment]))
    ELSE Ok(JObj([api_connected |-> JBool(FALSE),
                  database_healthy |-> JBool(FALSE),
                  last_check |-> NowText(now),
                  version |-> JStr(unknown),
                  environment |-> JStr(unknown)]))

\* a system status that hands the failure of the health check on
get_system_status_propagating(r, now) ==
  IF response_json(TStruct("HealthStatus"), r).ok
    THEN system_status_of(response_json(TStruct("HealthStatus"), r), now)
    ELSE Err(<<"Failed to get system status: ",
               response_json(TStruct("HealthStatus"), r).err>>)

get_system_status(r, now) ==
  system_status_of(response_json(TStruct("HealthStatus"), r), now)

\* Result::map_err(|e| format!("<prefix>{}", e))
map_err(res, prefix) == IF res.ok THEN res ELSE Err(<<prefix, res.err>>)

http_request(r) ==
  IF r.kind = "builder_error"
    THEN Err(<<"Request failed: ", "builder error">>)
  ELSE IF r.kind = "send_error"
    THEN Err(<<"Request failed: ", "error sending request">>)
  ELSE map_err(response_json(TValue, r), "Failed to parse response: ")

\* match client.<method>(..).await { Ok(x) => Ok(x),
\*                                   Err(e) => Err(format!("<prefix>: {}", e)) }
Wrapped(c, r) ==
  map_err(ApiClient_result(CommandTable[c].client, r), CommandTable[c].prefix)

\* what command c returns when the network gives r to its request
CommandResult(c, r, now) ==
  CASE c = "http_request" -> http_request(r)
    [] c = "get_system_status" -> get_system_status(r, now)
    [] OTHER -> Wrapped(c, r)

(***************************************************************************)
(* Url::parse as far as the host: the authority runs from "//" to the      *)
(* first "/", "?" or "#" (the literal paths of the client all start with   *)
(* "/"), and the host is what follows its last "@".  None when the text    *)
(* is no absolute http(s) URL or its port is no number.                    *)
(***************************************************************************)
Literals == {ApiClient[m].path : m \in DOMAIN ApiClient}

EndsAuthority(e) == e \in {"/", "?", "#"} \cup Literals

RECURSIVE Authority(_)
Authority(s) ==
  IF s = <<>> \/ EndsAuthority(Head(s)) THEN <<>>
  ELSE <<Head(s)>> \o Authority(Tail(s))

RECURSIVE AfterLast(_, _)
AfterLast(s, c) ==
  IF \E i \in 1..Len(s) : s[i] = c
    THEN AfterLast(Tail(s), c) ELSE s

\* host:port of an authority without its userinfo, None when the host is
\* empty or the port is no number
HostPortOf(hp, colon) ==
  IF hp = <<>> \/ hp[1] = ":" THEN None
  ELSE IF colon = {} THEN Some(hp)
  ELSE IF \A i \in 1..Len(hp) : (\E k \in colon : k < i) => hp[i] \in Digit
    THEN Some(hp)
  ELSE None

Colons(hp) == {i \in 1..Len(hp) : hp[i] = ":"}

AfterScheme(rest) ==
  HostPortOf(AfterLast(Authority(rest), "@"),
             Colons(AfterLast(Authority(rest), "@")))

HostPort(url) ==
  IF starts_with(url, http \o <<":", "/", "/">>)
    THEN AfterScheme(SubSeq(url, 8, Len(url)))
  ELSE IF starts_with(url, http \o <<"s", ":", "/", "/">>)
    THEN AfterScheme(SubSeq(url, 9, Len(url)))
  ELSE None

(***************************************************************************)
(* The arguments the UI may pass and the bodies the backend may answer     *)
(* with: small sets that hold each case the code tells apart.              *)
(***************************************************************************)
\* written text as characters
aaa == <<"a", "a", "a">>
p1 == <<"p", "1">>
p2 == <<"p", "2">>
active == <<"a", "c", "t", "i", "v", "e">>
a_date == <<"2", "0", "2", "4", "-", "0", "1", "-", "0", "2">>
a_time ==
  a_date \o <<"T", "0", "3", ":", "0", "4", ":", "0", "5", "Z">>

uuid_1 ==
  Rep(8, "1") \o <<"-">> \o Rep(4, "a") \o <<"-">> \o Rep(4, "4")
    \o <<"-">> \o Rep(4, "b") \o <<"-">> \o Rep(12, "c")
uuid_2 ==
  Rep(8, "2") \o <<"-">> \o Rep(4, "A") \o <<"-">> \o Rep(4, "4")
    \o <<"-">> \o Rep(4, "B") \o <<"-">> \o Rep(12, "F")

BatchIds ==
  {uuid_1, uuid_2, Rep(32, "e"), <<"{">> \o uuid_1 \o <<"}">>,
   UrnPrefix \o uuid_2,
   <<>>, <<"1", "2", "3">>, Rep(36, "a"), uuid_1 \o <<" ">>,
   Rep(8, "g") \o SubSeq(uuid_1, 9, 36), Rep(31, "e") \o <<"-">>,
   <<"{">> \o uuid_1}

Queries ==
  {lead \o word \o rest :
     lead \in {<<>>, <<" ">>, <<"\n", "\t">>},
     word \in {select, <<"S", "E", "L", "E", "C", "T">>,
               <<"S", "e", "l", "e", "c", "t">>,
               <<"s", "e", "l", "e", "c">>,
               <<"d", "e", "l", "e", "t", "e">>,
               <<"-", "-">> \o select,
               <<"s", "e", " ", "l", "e", "c", "t">>,
               <<>>},
     rest \in {<<>>, <<" ", "1", " ">>,
               <<";", "d", "r", "o", "p">>}}

Methods ==
  {<<"G", "E", "T">>, <<"g", "e", "t">>, <<"P", "o", "s", "t">>,
   <<"p", "u", "t">>, <<"D", "E", "L", "E", "T", "E">>,
   <<"P", "A", "T", "C", "H">>, <<" ", "G", "E", "T">>, <<>>}

Urls ==
  {<<"/", "h", "e", "a", "l", "t", "h">>,
   http \o <<":", "/", "/", "e", "v", "i", "l", ".", "e", "x", "/", "x">>,
   http \o <<"s", ":", "/", "/", "a", "p", "i", ".", "e", "x",
             ":", "4", "4", "3", "/">>,
   base_url \o <<"/", "h", "e", "a", "l", "t", "h">>,
   <<"@", "e", "v", "i", "l", ".", "e", "x", "/", "x">>,
   <<"h", "e", "a", "l", "t", "h">>,
   http \o <<"b", "i", "n">>,
   <<"H", "T", "T", "P", ":", "/", "/", "e", "v", "i", "l", ".", "e", "x">>}

NoArgs == [none |-> TRUE]

OptI32 == {None, Some(10), Some(-1)}

PricingRequestArg ==
  JObj([product_id |-> JStr(p1), inventory_id |-> JNull,
        strategy |-> JStr(aaa), target_margin |-> JFloat(1),
        condition |-> JStr(aaa), size |-> JNull])

ForecastRequestArg ==
  JObj([product_id |-> JStr(p1), brand_id |-> JNull, category_id |-> JNull,
        horizon_days |-> JInt(30), model |-> JNull,
        confidence_level |-> JFloat(1)])

Args(c) ==
  CASE c = "get_inventory_items" -> [limit : OptI32 \cup {Some(1)}]
    [] c = "http_request" ->
         [method : Methods, url : Urls,
          body : {None, Some(JObj([x |-> JInt(1)]))}]
    [] c = "import_stockx_data" -> {[from_date |-> a_date, to_date |-> a_date]}
    [] c = "get_import_status" -> [batch_id : BatchIds]
    [] c = "run_database_query" -> [query : Queries]
    [] c = "export_data_csv" ->
         [table : {aaa},
          filters : {None, Some(NoKeys), Some([status |-> active]),
                     Some([status |-> active, brand |-> aaa])}]
    [] c = "start_product_enrichment" ->
         [product_ids : {None, Some(<<>>), Some(<<p1>>), Some(<<p1, p2>>)}]
    [] c = "get_pricing_recommendation" -> {[request |-> PricingRequestArg]}
    [] c = "get_market_analysis" -> [product_id : {p1, <<>>}]
    [] c = "generate_sales_forecast" -> {[request |-> ForecastRequestArg]}
    [] c = "get_market_trends" -> [days_back : OptI32]
    [] c = "create_stockx_listing" ->
         {[item_id |-> p1, listing_type |-> aaa]}
    [] c \in {"get_stockx_listings", "get_alias_listings"} ->
         [status : {None, Some(active)}, limit : {None, Some(10)}]
    [] c = "optimize_inventory_pricing" -> {[strategy |-> aaa, limit |-> 10]}
    [] c = "toggle_auto_repricing" -> [enabled : BOOLEAN]
    [] c = "execute_auto_listing" -> {[max_items |-> 5, dry_run |-> TRUE]}
    [] c = "simulate_auto_listing" ->
         [rule_name : {None, Some(aaa)}, max_items : {5}]
    [] c = "toggle_listing_rule" -> {[rule_name |-> aaa, active |-> TRUE]}
    [] c = "analyze_dead_stock" ->
         [brand_filter : {None, Some(aaa)}, category_filter : {None},
          min_risk_score : {1}]
    [] c = "execute_clearance" ->
         {[risk_levels |-> <<aaa>>, max_items |-> 5, dry_run |-> FALSE]}
    [] c = "get_predictive_insights" ->
         [insight_types : {None, Some(aaa)}, days_ahead : {30}, limit : {10}]
    [] c = "get_inventory_forecasts" ->
         [product_ids : {None, Some(p1)}, horizon_days : {30}]
    [] c = "get_restock_recommendations" ->
         [investment_budget : {None, Some(3)}, min_roi : {4},
          max_products : {5}]
    [] OTHER -> {NoArgs}

RECURSIVE Sample(_)

SampleStruct(fs) ==
  JObj([key \in KeysOf(fs) |-> Sample(FieldAt(fs, key).ty)])

\* a JSON value that deserializes as ty
Sample(ty) ==
  CASE ty.k = "str" -> JStr(aaa)
    [] ty.k \in {"i32", "i64", "u64"} -> JInt(3)
    [] ty.k \in {"f64", "f32"} -> JFloat(5)
    [] ty.k = "bool" -> JBool(TRUE)
    [] ty.k = "uuid" -> JStr(uuid_1)
    [] ty.k = "date" -> JStr(a_time)
    [] ty.k = "value" -> JInt(7)
    [] ty.k = "opt" -> JNull
    [] ty.k = "vec" -> JArr(<<Sample(ty.of)>>)
    [] ty.k = "map" -> JObj([database |-> Sample(ty.of)])
    [] ty.k = "struct" -> SampleStruct(Fields(ty.name))

\* j with member key set to v / without member key
With(j, key, v) ==
  JObj([x \in DOMAIN j.o \cup {key} |-> IF x = key THEN v ELSE j.o[x]])
Without(j, key) == JObj([x \in DOMAIN j.o \ {key} |-> j.o[x]])

\* a second inventory item: another id and a negative quantity
Other(item) == With(With(item, "id", JStr(uuid_2)), "quantity", JInt(-4))

NotJson == [text |-> "<html>Internal Server Error</html>"]

CommonBodies ==
  {NotJson, [text |-> ""],
   [json |-> JObj([detail |-> JStr(aaa)])],
   [json |-> JArr(<<>>)]}

\* an item with nothing but its required fields, an empty name and a
\* negative quantity
Bare(item) ==
  With(With(Without(Without(Without(Without(Without(Without(item,
    "product_id"), "brand_name"), "category_name"), "purchase_price"),
    "purchase_date"), "notes"), "product_name", JStr(<<>>)),
    "quantity", JInt(-4))

\* single items: in range or not, with and without their optional fields
ItemVariants(item) ==
  {Bare(item),
   With(item, "notes", JInt(5)),
   With(item, "brand_name", JBool(TRUE)),
   With(item, "purchase_price", JInt(-3)),
   With(item, "quantity", JInt(I32Max)),
   With(item, "quantity", JInt(I32Min)),
   With(item, "id", JStr(aaa)),
   With(item, "status", JNull),
   Without(item, "size")}

InventoryBodies(Item1, Item2) ==
  {[json |-> JArr(<<v>>)] : v \in ItemVariants(Item1)} \cup
  {[json |-> j] : j \in
     {JObj([items |-> JArr(<<Item1, Item2>>), total |-> JInt(2)]),
      JObj([items |-> JStr(aaa)]),
      JObj([items |-> JArr(<<Item1, Without(Item2, "id")>>)]),
      JObj([items |-> JArr(<<>>)]),
      JObj([items |-> JNull]),
      JArr(<<Item2, Item1>>),
      JArr(<<Item1, With(Item2, "quantity", JFloat(3))>>)}}

ListingBodies ==
  {[json |-> j] : j \in
     {JObj([data |-> JObj([listings |->
               JArr(<<JObj([id |-> JInt(1)]), JStr(aaa),
                      JObj([id |-> JInt(2)])>>)])]),
      JObj([data |-> JObj([listings |-> JArr(<<>>)])]),
      JObj([data |-> JObj([listings |-> JStr(aaa)])]),
      JObj([data |-> JObj([total |-> JInt(0)])]),
      JObj([data |-> JNull]),
      JObj([listings |-> JArr(<<JObj([id |-> JInt(1)])>>)])}}

\* import statuses: a progress that no f32 holds, a time with an offset
\* that falls on the day before in UTC, an id written in capitals
ImportBodies(status) ==
  {[json |-> j] : j \in
     {status,
      With(status, "progress", JInt(F32Exact + 1)),
      With(status, "created_at",
           JStr(a_date \o <<"t", "0", "0", ":", "3", "0", ":", "0", "0",
                            "+", "0", "1", ":", "0", "0">>)),
      With(status, "id", JStr(uuid_2)),
      With(status, "completed_at", JStr(a_date))}}

\* product statistics, whole and with one field left out
StatsBodies(stats) ==
  {[json |-> j] : j \in
     {stats,
      Without(stats, "total_inventory_value"),
      Without(stats, "avg_profit_margin"),
      With(Without(stats, "total_inventory_value"), "total_value",
           JFloat(5))}}

\* dashboards: other listings than stock, an integer for the value, two
\* sales, figures of its own for the fields the client sets to zero, and
\* one without its sales
DashboardBodies(metrics) ==
  {[json |-> j] : j \in
     {metrics,
      With(metrics, "inventory",
           With(With(metrics.o.inventory, "items_listed", JInt(8)),
                "total_inventory_value", JInt(9))),
      With(metrics, "sales",
           JObj([recent_activity |->
                   JArr(<<JObj([id |-> JInt(1)]), JStr(aaa)>>)])),
      With(With(With(metrics, "monthly_sales", JFloat(5)),
                "profit_margin", JFloat(3)), "pending_imports", JInt(4)),
      Without(metrics, "sales")}}

HealthBodies(health) ==
  {[json |-> j] : j \in
     {With(health, "components", components) : components \in
        {JObj([database |-> JObj([status |-> JStr(healthy)])]),
         JObj([database |-> JObj([status |-> JStr(aaa)])]),
         JObj([database |-> JObj([status |-> JBool(TRUE)])]),
         JObj([database |-> JStr(healthy)]),
         JObj([redis |-> JObj([status |-> JStr(healthy)])])}}
     \cup {Without(health, "version")}}

Bodies(c) ==
  CommonBodies \cup
  (CASE c = "get_inventory_items" ->
         InventoryBodies(Sample(TStruct("InventoryItem")),
                         Other(Sample(TStruct("InventoryItem"))))
    [] c \in {"get_stockx_listings", "get_alias_listings"} -> ListingBodies
    [] c \in {"health_check", "get_system_status"} ->
         HealthBodies(Sample(TStruct("HealthStatus")))
    [] c = "get_import_status" ->
         ImportBodies(Sample(TStruct("ImportStatus")))
    [] c = "get_product_stats" ->
         StatsBodies(Sample(TStruct("ProductStats")))
    [] c = "get_dashboard_metrics" ->
         DashboardBodies(Sample(TStruct("ApiDashboardMetrics")))
    [] c = "export_data_csv" -> {[text |-> "id,name"]}
    [] c = "http_request" -> {[json |-> JInt(7)]}
    [] c \in DOMAIN CommandTable ->
         {[json |-> Sample(ApiClient[CommandTable[c].client].ty)]}
    [] OTHER -> {})

Statuses == {200, 404, 500}

Outcomes(c) ==
  {SendError} \cup {BodyError(st) : st \in Statuses}
    \cup {Response(st, b) : st \in Statuses, b \in Bodies(c)}

(***************************************************************************)
(* The state: one slot per invocation that may be in flight.  A command    *)
(* function holds nothing but its arguments and locals (each builds its    *)
(* own ApiClient), so everything but the wall clock is per slot.           *)
(***************************************************************************)
VARIABLES
  pc,       \* slot -> "idle" | "awaiting" (suspended on the network) | "done"
  cmd,      \* slot -> the command invoked
  arg,      \* slot -> its arguments
  sent,     \* slot -> the requests the invocation has sent, in order
  resp,     \* slot -> what the network gave its request
  result,   \* slot -> the Result<T, String> handed back to the UI
  started,  \* slot -> the clock when the command was invoked
  now       \* the wall clock

vars == <<pc, cmd, arg, sent, resp, result, started, now>>

NoCmd == "none"
NoOutcome == [kind |-> "none"]
Pending == [pending |-> TRUE]

InitOn(slots) ==
  /\ pc = [i \in slots |-> "idle"]
  /\ cmd = [i \in slots |-> NoCmd]
  /\ arg = [i \in slots |-> NoArgs]
  /\ sent = [i \in slots |-> <<>>]
  /\ resp = [i \in slots |-> NoOutcome]
  /\ result = [i \in slots |-> Pending]
  /\ started = [i \in slots |-> 0]
  /\ now = 0

\* a send that tries a second time
SendTwice(sofar, request) == Append(Append(sofar, request), request)

\* RequestBuilder::send: one request goes out
Send(sofar, request) == Append(sofar, request)

\* The UI invokes command c with arguments a: the command function runs to
\* its first await.  It returns at once when an argument check fails, and
\* when the URL of its request does not parse (send() then fails without a
\* request); otherwise its request goes out.
Invoke(i, c, a) ==
  /\ pc[i] = "idle"
  /\ cmd' = [cmd EXCEPT ![i] = c]
  /\ arg' = [arg EXCEPT ![i] = a]
  /\ started' = [started EXCEPT ![i] = now]
  /\ IF Rejection(c, a).some
       THEN /\ result' = [result EXCEPT ![i] = Rejection(c, a).v]
            /\ pc' = [pc EXCEPT ![i] = "done"]
            /\ UNCHANGED <<sent, resp>>
       ELSE \E request \in CommandRequest(c, a) :
              IF HostPort(request.url).some
                THEN /\ sent' = [sent EXCEPT ![i] = Send(sent[i], request)]
                     /\ pc' = [pc EXCEPT ![i] = "awaiting"]
                     /\ UNCHANGED <<result, resp>>
                ELSE /\ resp' = [resp EXCEPT ![i] = BuilderError]
                     /\ result' = [result EXCEPT ![i] =
                                     CommandResult(c, BuilderError, now)]
                     /\ pc' = [pc EXCEPT ![i] = "done"]
                     /\ UNCHANGED sent
  /\ UNCHANGED now

\* an answer that is taken in while the command function stays suspended
ReceiveAndStay(i, r) ==
  /\ pc[i] = "awaiting"
  /\ resp' = [resp EXCEPT ![i] = r]
  /\ UNCHANGED <<pc, cmd, arg, sent, result, started, now>>

\* an answer that lands in every invocation that waits for one
ReceiveShared(i, r) ==
  /\ pc[i] = "awaiting"
  /\ resp' = [j \in DOMAIN resp |-> IF pc[j] = "awaiting" THEN r ELSE resp[j]]
  /\ result' = [j \in DOMAIN result |->
                  IF pc[j] = "awaiting" THEN CommandResult(cmd[j], r, now)
                  ELSE result[j]]
  /\ pc' = [j \in DOMAIN pc |-> IF pc[j] = "awaiting" THEN "done" ELSE pc[j]]
  /\ UNCHANGED <<cmd, arg, sent, started, now>>

\* The network answers the request of slot i with r, and the command
\* function runs on to its return.
Receive(i, r) ==
  /\ pc[i] = "awaiting"
  /\ resp' = [resp EXCEPT ![i] = r]
  /\ result' = [result EXCEPT ![i] = CommandResult(cmd[i], r, now)]
  /\ pc' = [pc EXCEPT ![i] = "done"]
  /\ UNCHANGED <<cmd, arg, sent, started, now>>

\* The UI takes the result; the slot is free for the next invocation.
Return(i) ==
  /\ pc[i] = "done"
  /\ pc' = [pc EXCEPT ![i] = "idle"]
  /\ cmd' = [cmd EXCEPT ![i] = NoCmd]
  /\ arg' = [arg EXCEPT ![i] = NoArgs]
  /\ sent' = [sent EXCEPT ![i] = <<>>]
  /\ resp' = [resp EXCEPT ![i] = NoOutcome]
  /\ result' = [result EXCEPT ![i] = Pending]
  /\ started' = [started EXCEPT ![i] = 0]
  /\ UNCHANGED now

\* Time passes.
Tick ==
  /\ now < MaxClock
  /\ now' = now + 1
  /\ UNCHANGED <<pc, cmd, arg, sent, resp, result, started>>

\* One invocation at a time, every command, every argument and answer.
Init == InitOn({1})

Next ==
  \/ \E c \in Commands : \E a \in Args(c) : Invoke(1, c, a)
  \/ \E r \in Outcomes(cmd[1]) : Receive(1, r)
  \/ Return(1)
  \/ Tick

Spec == Init /\ [][Next]_vars

\* One command of each control flow: the three with an argument check,
\* the one that swallows the failure, the ones with a fallback, the one that
\* reads text, and health_check for all that only wrap their client method.
LiveCommands ==
  {"http_request", "get_import_status", "run_database_query",
   "get_system_status", "get_inventory_items", "get_stockx_listings",
   "export_data_csv", "health_check"}

NextLive ==
  \/ \E c \in LiveCommands : \E a \in Args(c) : Invoke(1, c, a)
  \/ \E r \in Outcomes(cmd[1]) : Receive(1, r)
  \/ Return(1)
  \/ Tick

\* A request that is out gets its answer or its transport failure in the
\* end (the await on send() is the only point of suspension).
SpecLive ==
  /\ Init /\ [][NextLive]_vars
  /\ WF_vars(\E r \in Outcomes(cmd[1]) : Receive(1, r))

\* main: the command functions handed to generate_handler!, which are the
\* ones the UI can call by name
invoke_handler ==
  {"health_check", "get_inventory_items", "get_product_stats",
   "import_stockx_data", "get_import_status", "get_dashboard_metrics",
   "run_database_query", "export_data_csv", "get_system_status",
   "get_enrichment_status", "start_product_enrichment",
   "get_pricing_recommendation", "get_market_analysis",
   "get_pricing_insights", "get_pricing_strategies",
   "generate_sales_forecast", "get_market_trends", "get_forecast_models",
   "get_predictive_insights"}

(***************************************************************************)
(* Several invocations in flight: the runtime runs each command function   *)
(* as a task of its own and interleaves the tasks at their awaits.  The    *)
(* commands, arguments and answers are a few of each kind: one that reads  *)
(* the clock, one that may be turned away, and for each an answer that     *)
(* decodes, one that does not and none at all.                             *)
(***************************************************************************)
Slots == 1..MaxInFlight

ConcCommands == {"get_system_status", "run_database_query"}

ConcArgs(c) ==
  IF c = "run_database_query"
    THEN {[query |-> select], [query |-> <<"d", "r", "o", "p">>]}
    ELSE {NoArgs}

ConcOutcomes(c) ==
  {SendError, Response(500, NotJson)} \cup
  {Response(200, [json |-> Sample(ApiClient[CommandTable[d].client].ty)]) :
     d \in {c} \cap ConcCommands}

InitConc == InitOn(Slots)

NextConc ==
  \/ \E i \in Slots : \E c \in ConcCommands : \E a \in ConcArgs(c) :
       Invoke(i, c, a)
  \/ \E i \in Slots : \E r \in ConcOutcomes(cmd[i]) : Receive(i, r)
  \/ \E i \in Slots : Return(i)
  \/ Tick

SpecConc == InitConc /\ [][NextConc]_vars


(***************************************************************************)
(* The same command more than once: the command that reads the clock and   *)
(* one with an argument, invoked in any order and at any time, each with   *)
(* an answer that decodes, one that does not and none at all.              *)
(***************************************************************************)
PairCommands == {"get_system_status", "get_inventory_items"}

PairArgs(c) ==
  IF c = "get_inventory_items"
    THEN {[limit |-> None], [limit |-> Some(10)]}
    ELSE {NoArgs}

PairOutcomes(c) ==
  {SendError, Response(500, NotJson)} \cup
  {Response(200,
     [json |-> IF d = "get_inventory_items"
                 THEN JObj([items |->
                              JArr(<<Sample(TStruct("InventoryItem"))>>)])
                 ELSE Sample(ApiClient[CommandTable[d].client].ty)]) :
     d \in {c} \cap PairCommands}

NextPair ==
  \/ \E i \in Slots : \E c \in PairCommands : \E a \in PairArgs(c) :
       Invoke(i, c, a)
  \/ \E i \in Slots : \E r \in PairOutcomes(cmd[i]) : Receive(i, r)
  \/ \E i \in Slots : Return(i)
  \/ Tick

SpecPair == InitConc /\ [][NextPair]_vars

(***************************************************************************)
(* The claims of the specification, each as a property of Spec (one        *)
(* invocation at a time, in slot 1) unless it says otherwise.              *)
(***************************************************************************)
OnlySelect == Err(<<"Only SELECT queries are allowed for security reasons">>)

\* the text is a UUID in one of the four written forms
IsUuidText(s) ==
  \/ IsSimple(s)
  \/ IsHyphenated(s)
  \/ Len(s) = 38 /\ s[1] = "{" /\ s[38] = "}" /\ IsHyphenated(SubSeq(s, 2, 37))
  \/ Len(s) = 45 /\ SubSeq(s, 1, 9) = UrnPrefix
       /\ IsHyphenated(SubSeq(s, 10, 45))

\* C1: run_database_query, given a query whose trimmed, lower-cased text
\* does not begin with "select", returns the fixed error "Only SELECT
\* queries are allowed for security reasons" and sends no HTTP request.
C1_NonSelectRejected ==
  (/\ cmd[1] = "run_database_query"
   /\ ~starts_with(to_lowercase(trim(arg[1].query)), select))
  => /\ pc[1] = "done"
     /\ result[1] = OnlySelect
     /\ sent[1] = <<>>

\* a query that is no select has been turned away
C1_Witness ==
  /\ cmd[1] = "run_database_query"
  /\ arg[1].query = <<" ">> \o <<"d", "e", "l", "e", "t", "e">> \o <<" ", "1", " ">>
  /\ pc[1] = "done"
  /\ result[1] = OnlySelect
  /\ sent[1] = <<>>

\* C2: get_import_status, given a batch_id that does not parse as a UUID,
\* returns an error that begins "Invalid batch ID" and sends no HTTP
\* request.
C2_BadBatchIdRejected ==
  (cmd[1] = "get_import_status" /\ ~IsUuidText(arg[1].batch_id))
  => /\ pc[1] = "done"
     /\ ~result[1].ok
     /\ result[1].err[1] = "Invalid batch ID: "
     /\ sent[1] = <<>>

\* a batch_id of the right length that is no UUID has been turned away
C2_Witness ==
  /\ cmd[1] = "get_import_status"
  /\ arg[1].batch_id = Rep(36, "a")
  /\ pc[1] = "done"
  /\ ~result[1].ok
  /\ result[1].err[1] = "Invalid batch ID: "
  /\ sent[1] = <<>>

\* the health check of the invocation in slot i has failed: no answer, a
\* body that cannot be read, or a body that is no HealthStatus
HealthCheckFailed(i) ==
  \/ resp[i].kind \in {"send_error", "body_error", "builder_error"}
  \/ /\ resp[i].kind = "body"
     /\ \/ "json" \notin DOMAIN resp[i].body
        \/ ~Conforms(TStruct("HealthStatus"), resp[i].body.json)

Empty == Ok(JArr(<<>>))

\* the body b is JSON with a member `items`
HasItems(b) ==
  "json" \in DOMAIN b /\ b.json.t = "obj" /\ "items" \in DOMAIN b.json.o

\* the body b is JSON that reads as a list of inventory items
IsItemList(b) == "json" \in DOMAIN b /\ Conforms(InventoryItems, b.json)

\* C4: get_inventory_items, on a response whose body is well-formed JSON,
\* never returns an error; when the body has no `items` member and does not
\* decode as a list of inventory items, or has an `items` member that does
\* not, the result is the empty collection.
C4_InventoryFallback ==
  (/\ cmd[1] = "get_inventory_items" /\ pc[1] = "done"
   /\ resp[1].kind = "body" /\ "json" \in DOMAIN resp[1].body)
  => /\ result[1].ok
     /\ (~HasItems(resp[1].body) /\ ~IsItemList(resp[1].body))
          => result[1] = Empty
     /\ (/\ HasItems(resp[1].body)
         /\ ~Conforms(InventoryItems, resp[1].body.json.o.items))
          => result[1] = Empty

\* a JSON body with no `items` that is no list gave the empty collection
C4_Witness ==
  /\ cmd[1] = "get_inventory_items" /\ pc[1] = "done"
  /\ resp[1] = Response(200, [json |-> JObj([detail |-> JStr(aaa)])])
  /\ result[1] = Empty

\* C4 as the specification words it: every response that lacks `items`
\* and whose whole body fails to decode as a list of inventory items gives
\* the empty collection and never an error.
C4_AnyDecodeFailureEmpty ==
  (/\ cmd[1] = "get_inventory_items" /\ pc[1] = "done"
   /\ resp[1].kind = "body"
   /\ ~HasItems(resp[1].body) /\ ~IsItemList(resp[1].body))
  => result[1] = Empty

\* the JSON value j has an array at data.listings
HasListings(j) ==
  /\ j.t = "obj" /\ "data" \in DOMAIN j.o
  /\ j.o.data.t = "obj" /\ "listings" \in DOMAIN j.o.data.o
  /\ j.o.data.o.listings.t = "arr"

\* C5: get_stockx_listings and get_alias_listings, on a response whose body
\* is well-formed JSON in which data.listings is absent or is no array,
\* return the successful empty collection.
C5_ListingsFallback ==
  (/\ cmd[1] \in {"get_stockx_listings", "get_alias_listings"}
   /\ pc[1] = "done"
   /\ resp[1].kind = "body" /\ "json" \in DOMAIN resp[1].body
   /\ ~HasListings(resp[1].body.json))
  => result[1] = Empty

\* a JSON body whose data is null gave the empty collection
C5_Witness ==
  /\ cmd[1] = "get_alias_listings" /\ pc[1] = "done"
  /\ resp[1] = Response(200, [json |-> JObj([data |-> JNull])])
  /\ result[1] = Empty

\* C5 as the specification words it: every response in which data.listings
\* is absent or no array, a malformed one included, gives the successful
\* empty collection.
C5_AnyResponseWithoutListingsEmpty ==
  (/\ cmd[1] \in {"get_stockx_listings", "get_alias_listings"}
   /\ pc[1] = "done"
   /\ resp[1].kind = "body"
   /\ ~("json" \in DOMAIN resp[1].body /\ HasListings(resp[1].body.json)))
  => result[1] = Empty

\* the HTTP call of client method m has failed on r: no connection, a body
\* that cannot be read, a status that is no success, a body that is no
\* JSON, or JSON of another shape than the method's contract
CallFailed(m, r) ==
  \/ r.kind \in {"send_error", "body_error", "builder_error"}
  \/ /\ r.kind = "body"
     /\ \/ ~IsSuccess(r.status)
        \/ /\ m # "export_data_csv"
           /\ \/ "json" \notin DOMAIN r.body
              \/ ~Conforms(ApiClient[m].ty, r.body.json)

\* C6: every command other than get_system_status, whenever its HTTP call
\* fails (connection error, non-success status, malformed JSON or shape
\* mismatch), returns an error made of the operation's descriptive name
\* and the underlying error text, never a success value.
C6_FailurePropagates ==
  (/\ cmd[1] \in DOMAIN CommandTable \ {"get_system_status"}
   /\ pc[1] = "done"
   /\ ~Rejection(cmd[1], arg[1]).some
   /\ CallFailed(CommandTable[cmd[1]].client, resp[1]))
  => /\ ~result[1].ok
     /\ result[1].err[1] = CommandTable[cmd[1]].prefix

\* C7: for every client operation, a response with a non-2xx status gives
\* a failure, never the typed success value, whatever its body.
C7_NonSuccessStatusFails ==
  (/\ cmd[1] \in DOMAIN CommandTable
   /\ pc[1] = "done"
   /\ resp[1].kind = "body" /\ ~IsSuccess(resp[1].status))
  => ~ApiClient_result(CommandTable[cmd[1]].client, resp[1]).ok

localhost_8000 ==
  <<"l", "o", "c", "a", "l", "h", "o", "s", "t", ":", "8", "0", "0", "0">>

\* C8: every HTTP request of every command other than http_request goes to
\* the host of the fixed base address, localhost:8000, whatever the
\* arguments.
C8_FixedBaseAddress ==
  (cmd[1] # "http_request")
  => \A k \in 1..Len(sent[1]) : HostPort(sent[1][k].url) = Some(localhost_8000)

\* a request with an argument in its path went to localhost:8000
C8_Witness ==
  /\ cmd[1] = "get_market_analysis"
  /\ Len(sent[1]) = 1
  /\ HostPort(sent[1][1].url) = Some(localhost_8000)

\* C8 as the specification words it: every request of every command goes
\* to localhost:8000.
C8_EveryRequestToBase ==
  \A k \in 1..Len(sent[1]) : HostPort(sent[1][k].url) = Some(localhost_8000)

\* the invocation in slot i never built its request: http_request with a
\* URL that does not parse
Unbuilt(i) ==
  /\ cmd[i] = "http_request"
  /\ ~HostPort(http_request_url(arg[i].url)).some

\* C9: an invocation sends at most one HTTP request in every outcome; once
\* it has returned it has sent exactly one, unless an argument check
\* turned it away or its request could not be built (http_request with a
\* URL that does not parse), and then it has sent none.
C9_AtMostOneRequest ==
  /\ Len(sent[1]) <= 1
  /\ pc[1] = "done" =>
       Len(sent[1]) =
         IF Rejection(cmd[1], arg[1]).some \/ Unbuilt(1) THEN 0 ELSE 1

\* a request failed on the network and no second one was sent
C9_Witness ==
  /\ cmd[1] = "health_check" /\ pc[1] = "done"
  /\ resp[1] = SendError
  /\ ~result[1].ok
  /\ Len(sent[1]) = 1

\* C9 as the specification words it: an invocation that has returned has
\* sent exactly one request unless input validation turned it away.
C9_ExactlyOneUnlessRejected ==
  /\ Len(sent[1]) <= 1
  /\ pc[1] = "done" =>
       Len(sent[1]) = IF Rejection(cmd[1], arg[1]).some THEN 0 ELSE 1

\* everything the invocation in slot i holds
Own(i) == <<pc[i], cmd[i], arg[i], sent[i], resp[i], result[i], started[i]>>

\* the result of the invocation in slot i is what the command gives, run
\* alone, for its own arguments and the answer to its own request
ResultIsOwn(i) ==
  pc[i] = "done" =>
    \/ /\ Rejection(cmd[i], arg[i]).some
       /\ result[i] = Rejection(cmd[i], arg[i]).v
    \/ /\ ~Rejection(cmd[i], arg[i]).some
       /\ \E at \in started[i]..now :
            result[i] = CommandResult(cmd[i], resp[i], at)

\* a step that changes what one invocation holds leaves every other
\* invocation's as it was
OneAtATime ==
  \A i, j \in Slots : (i # j /\ Own(i)' # Own(i)) => Own(j)' = Own(j)

\* C10 (under SpecConc): with several invocations in flight and under every
\* interleaving of their steps, each invocation's result is the one it
\* gives when run alone on its own arguments and the answer to its own
\* request, and no step of one invocation changes anything another holds.
C10_NoSharedState ==
  /\ [](\A i \in Slots : ResultIsOwn(i))
  /\ [][OneAtATime]_vars

\* an invocation began and ended, with its own result, while an earlier one
\* of another command was still waiting for its answer
C10_Witness ==
  /\ pc[1] = "awaiting" /\ cmd[1] = "get_system_status"
  /\ pc[2] = "done" /\ cmd[2] = "run_database_query"
  /\ started[1] < started[2]
  /\ resp[2] = Response(500, NotJson)
  /\ result[2] = Err(<<"Query failed: ", "error decoding response body">>)

\* C11 (under SpecLive, where every request that is out is answered or
\* fails in the end): an invoked command returns a result or an error; it
\* is not left suspended once its request has completed.
C11_EveryCommandReturns ==
  /\ (pc[1] = "awaiting") ~> (pc[1] = "done")
  /\ [](pc[1] = "done" => (result[1] # Pending /\ "ok" \in DOMAIN result[1]))
  /\ [][pc[1] = "awaiting" =>
         (pc'[1] = "awaiting" /\ resp'[1] = NoOutcome) \/ pc'[1] = "done"]_vars

\* http_request was suspended on its request and has returned with an error
C11_Witness ==
  /\ cmd[1] = "http_request" /\ pc[1] = "done"
  /\ Len(sent[1]) = 1 /\ resp[1] = SendError
  /\ result[1] = Err(<<"Request failed: ", "error sending request">>)

\* the commands whose success value is built from a part of the response,
\* or from none of it
Lossy ==
  {"get_system_status", "get_inventory_items", "get_stockx_listings",
   "get_alias_listings", "sync_inventory_from_stockx",
   "get_dashboard_metrics"}

\* the type command c gives back
ResultType(c) ==
  IF c = "http_request" THEN TValue ELSE ApiClient[CommandTable[c].client].ty

\* the result of the invocation in slot i, when a success, is the whole
\* typed value decoded from the body of its response
WholeOrError(i) ==
  result[i].ok =>
    /\ resp[i].kind = "body"
    /\ IF cmd[i] = "export_data_csv"
         THEN result[i].val = [t |-> "text", of |-> resp[i].body]
         ELSE /\ "json" \in DOMAIN resp[i].body
              /\ Conforms(ResultType(cmd[i]), resp[i].body.json)
              /\ result[i].val =
                   Decoded(ResultType(cmd[i]), resp[i].body.json)

\* C12: for every command other than get_system_status,
\* get_inventory_items, get_stockx_listings, get_alias_listings,
\* sync_inventory_from_stockx and get_dashboard_metrics, the result is
\* either the complete typed value decoded from the response or an error.
C12_WholeValueOrError ==
  (pc[1] = "done" /\ cmd[1] \notin Lossy) => WholeOrError(1)

\* a command returned the whole of a response of nested contracts
C12_Witness ==
  /\ cmd[1] = "analyze_dead_stock" /\ pc[1] = "done"
  /\ resp[1].kind = "body" /\ resp[1].status = 200
  /\ result[1].ok
  /\ result[1].val =
       Decoded(TStruct("DeadStockAnalysis"), resp[1].body.json)

\* C12 as the specification words it: the result of every command is the
\* complete typed value decoded from the response or an error.
C12_NoPartialSuccess == pc[1] = "done" => WholeOrError(1)

\* the command functions that wrap client method m
WrappersOf(m) == {c \in DOMAIN CommandTable : CommandTable[c].client = m}

\* C13: each client method has exactly one command function, each command
\* function wraps a client method, and every command function (the one
\* that is running among them) is registered in the invoke handler.
C13_OneRegisteredCommandPerMethod ==
  /\ \A m \in DOMAIN ApiClient : Cardinality(WrappersOf(m)) = 1
  /\ Commands \subseteq DOMAIN CommandTable
  /\ Commands \subseteq invoke_handler
  /\ pc[1] # "idle" => cmd[1] \in invoke_handler

RECURSIVE SameValue(_, _, _)

\* every required field (no Option, no default) of the struct d with the
\* fields fs has the value of the member of the JSON object j it is read
\* from
SameRequired(fs, d, j) ==
  \A i \in 1..Len(fs) :
    (fs[i].ty.k # "opt" /\ ~fs[i].dflt)
      => /\ fs[i].key \in DOMAIN j.o
         /\ SameValue(fs[i].ty, d.o[fs[i].field], j.o[fs[i].key])

\* the typed value d of type ty has the value the JSON value j writes: the
\* same number, the same UUID, the same instant, the same text
SameValue(ty, d, j) ==
  CASE ty.k \in {"f64", "f32"} -> j.t \in {"int", "float"} /\ d.x = Halves(j)
    [] ty.k = "uuid" -> j.t = "str" /\ UuidText(d.u) = UuidText(parse_str(j.s).v)
    [] ty.k = "date" -> j.t = "str" /\ d = DateOf(j.s)
    [] ty.k = "opt" -> IF j.t = "null" THEN d.t = "null"
                       ELSE SameValue(ty.of, d, j)
    [] ty.k = "vec" ->
         /\ j.t = "arr" /\ Len(d.a) = Len(j.a)
         /\ \A i \in 1..Len(j.a) : SameValue(ty.of, d.a[i], j.a[i])
    [] ty.k = "map" ->
         /\ j.t = "obj" /\ DOMAIN d.o = DOMAIN j.o
         /\ \A key \in DOMAIN j.o : SameValue(ty.of, d.o[key], j.o[key])
    [] ty.k = "struct" ->
         j.t = "obj" /\ SameRequired(Fields(ty.name), d, j)
    [] OTHER -> d = j

\* the commands that hand back what response.json::<T>() decoded
Plain == DOMAIN CommandTable \ (Lossy \cup {"export_data_csv"})

\* C14: for every data contract and every JSON value of its shape,
\* decoding succeeds, every required field of the decoded structure equals
\* the JSON field it was read from, and encoding the structure and decoding
\* it again gives the same required fields.
C14_DecodeRoundTrip ==
  (/\ cmd[1] \in Plain /\ pc[1] = "done"
   /\ resp[1].kind = "body" /\ "json" \in DOMAIN resp[1].body
   /\ resp[1].body.json.t = "obj"
   /\ Conforms(ResultType(cmd[1]), resp[1].body.json))
  => /\ result[1].ok
     /\ SameValue(ResultType(cmd[1]), result[1].val, resp[1].body.json)
     /\ from_value(ResultType(cmd[1]),
                   Encoded(ResultType(cmd[1]), result[1].val)).ok
     /\ SameValue(ResultType(cmd[1]),
                  from_value(ResultType(cmd[1]),
                             Encoded(ResultType(cmd[1]), result[1].val)).val,
                  Encoded(ResultType(cmd[1]), result[1].val))
     /\ from_value(ResultType(cmd[1]),
                   Encoded(ResultType(cmd[1]), result[1].val)).val
          = result[1].val

\* the records an inventory body carries: the array under `items`, or the
\* body itself when it is an array
Records(j) ==
  IF j.t = "arr" THEN j.a
  ELSE IF j.t = "obj" /\ "items" \in DOMAIN j.o /\ j.o.items.t = "arr"
    THEN j.o.items.a
  ELSE <<>>

\* get_inventory_items has read a success response whose body carries at
\* least one record, each a JSON object
DecodedRecords(i) ==
  /\ cmd[i] = "get_inventory_items" /\ pc[i] = "done"
  /\ resp[i].kind = "body" /\ IsSuccess(resp[i].status)
  /\ "json" \in DOMAIN resp[i].body
  /\ Records(resp[i].body.json) # <<>>
  /\ \A n \in 1..Len(Records(resp[i].body.json)) :
       Records(resp[i].body.json)[n].t = "obj"

\* every field the record holds has a value its declared type takes, and
\* the fields it lacks are optional
Accepted(fs, rec) ==
  \A k \in 1..Len(fs) :
    IF fs[k].key \in DOMAIN rec.o
      THEN Conforms(fs[k].ty, rec.o[fs[k].key])
      ELSE fs[k].ty.k = "opt" \/ fs[k].dflt

\* every required field is there and has a value its declared type takes
RequiredAccepted(fs, rec) ==
  \A k \in 1..Len(fs) :
    (fs[k].ty.k # "opt" /\ ~fs[k].dflt)
      => /\ fs[k].key \in DOMAIN rec.o
         /\ Conforms(fs[k].ty, rec.o[fs[k].key])

\* the item d holds the strings and integers of rec unchanged, and nothing
\* for the optional fields rec lacks
Unchanged(fs, d, rec) ==
  \A k \in 1..Len(fs) :
    IF fs[k].key \in DOMAIN rec.o
      THEN fs[k].ty.k \in {"str", "i32"}
             => d.o[fs[k].field] = rec.o[fs[k].key]
      ELSE d.o[fs[k].field] = JNull

\* C15 (as amended): decoding an inventory item fails exactly when a
\* required field is absent or a field that is present, required or
\* optional, has a value its declared type does not take (a wrong JSON
\* type, a string that is no UUID); an absent
\* optional field decodes to an absent value, and negative quantities and
\* empty strings are accepted unchanged.
C15_DecodeFailsOnlyOnUnacceptedField ==
  DecodedRecords(1) =>
    IF \A n \in 1..Len(Records(resp[1].body.json)) :
         Accepted(Fields("InventoryItem"), Records(resp[1].body.json)[n])
      THEN /\ result[1].ok
           /\ Len(result[1].val.a) = Len(Records(resp[1].body.json))
           /\ \A n \in 1..Len(Records(resp[1].body.json)) :
                Unchanged(Fields("InventoryItem"), result[1].val.a[n],
                          Records(resp[1].body.json)[n])
      ELSE result[1] = Empty

\* an item with no optional field, an empty name and a negative quantity
\* was decoded as it stands
C15_Witness ==
  /\ DecodedRecords(1)
  /\ Len(Records(resp[1].body.json)) = 1
  /\ DOMAIN Records(resp[1].body.json)[1].o \cap {"notes", "product_id"} = {}
  /\ result[1].ok /\ Len(result[1].val.a) = 1
  /\ result[1].val.a[1].o.quantity = JInt(-4)
  /\ result[1].val.a[1].o.product_name = JStr(<<>>)
  /\ result[1].val.a[1].o.notes = JNull

\* C15 (as stated): decoding fails only if a required field is absent or
\* has the wrong type.
C15_FailsOnlyOnRequiredField ==
  (/\ DecodedRecords(1)
   /\ \A n \in 1..Len(Records(resp[1].body.json)) :
        RequiredAccepted(Fields("InventoryItem"),
                         Records(resp[1].body.json)[n]))
  => /\ result[1].ok
     /\ Len(result[1].val.a) = Len(Records(resp[1].body.json))

\* get_product_stats has read a success response whose body is an object
\* with every field of ProductStats but the inventory value
StatsWithoutValue(i) ==
  /\ cmd[i] = "get_product_stats" /\ pc[i] = "done"
  /\ resp[i].kind = "body" /\ IsSuccess(resp[i].status)
  /\ "json" \in DOMAIN resp[i].body
  /\ resp[i].body.json.t = "obj"
  /\ "total_inventory_value" \notin DOMAIN resp[i].body.json.o
  /\ Accepted(ProductStats,
              With(resp[i].body.json, "total_inventory_value", JFloat(0)))

\* C16: fields historically absent from backend payloads decode to
\* defaults: an inventory payload without a SKU decodes with the SKU set
\* to a sentinel string, and a payload without its current-value field
\* decodes with that value equal to zero.
C16_MissingFieldsDefault ==
  /\ (/\ DecodedRecords(1)
      /\ \A n \in 1..Len(Records(resp[1].body.json)) :
           /\ Accepted(InventoryItem, Records(resp[1].body.json)[n])
           /\ "sku" \notin DOMAIN Records(resp[1].body.json)[n].o)
     => /\ result[1].ok
        /\ Len(result[1].val.a) = Len(Records(resp[1].body.json))
        /\ \A n \in 1..Len(result[1].val.a) :
             /\ "sku" \in DOMAIN result[1].val.a[n].o
             /\ result[1].val.a[n].o.sku.t = "str"
             /\ result[1].val.a[n].o.sku.s # <<>>
  /\ StatsWithoutValue(1)
     => /\ result[1].ok
        /\ result[1].val.o.total_value = JFloat(0)

\* get_inventory_items has read a JSON body
ReadInventory(i) ==
  /\ cmd[i] = "get_inventory_items" /\ pc[i] = "done"
  /\ resp[i].kind = "body" /\ "json" \in DOMAIN resp[i].body

\* rs is an array of JSON objects that are valid inventory records
ValidRecords(rs) ==
  /\ rs.t = "arr"
  /\ \A n \in 1..Len(rs.a) :
       rs.a[n].t = "obj" /\ Accepted(InventoryItem, rs.a[n])

\* the result is the records of rs, as many and in their order
SameItems(res, rs) ==
  /\ res.ok /\ res.val.t = "arr" /\ Len(res.val.a) = Len(rs.a)
  /\ \A n \in 1..Len(rs.a) :
       /\ SameRequired(InventoryItem, res.val.a[n], rs.a[n])
       /\ Unchanged(InventoryItem, res.val.a[n], rs.a[n])

\* C17: when the body is an object whose `items` is an array of n valid
\* inventory records, get_inventory_items returns those n items in the
\* array's order, whatever the limit argument; when `items` is there but is
\* no array of valid records, it returns the empty collection.
C17_ItemsInOrder ==
  (/\ ReadInventory(1)
   /\ resp[1].body.json.t = "obj"
   /\ "items" \in DOMAIN resp[1].body.json.o)
  => IF ValidRecords(resp[1].body.json.o.items)
       THEN SameItems(result[1], resp[1].body.json.o.items)
       ELSE result[1] = Empty

\* limit = 1 and two valid records under `items`: both came back, in order
C17_Witness ==
  /\ ReadInventory(1)
  /\ arg[1].limit = Some(1)
  /\ resp[1].body.json.t = "obj"
  /\ "items" \in DOMAIN resp[1].body.json.o
  /\ ValidRecords(resp[1].body.json.o.items)
  /\ Len(resp[1].body.json.o.items.a) = 2
  /\ result[1].ok /\ Len(result[1].val.a) = 2
  /\ UuidText(result[1].val.a[1].o.id.u) = uuid_1
  /\ result[1].val.a[2].o.id.u # result[1].val.a[1].o.id.u
  /\ result[1].val.a[2].o.quantity = JInt(-4)

\* C18: inventory decoding is all-or-nothing: an `items` array with at
\* least one record that does not decode gives the empty collection, not
\* the valid records; and the body as a whole is decoded only when it has
\* no `items` key, so a body with the key that fails gives the empty
\* collection.
C18_AllOrNothing ==
  ReadInventory(1) =>
    IF resp[1].body.json.t = "obj" /\ "items" \in DOMAIN resp[1].body.json.o
      THEN \/ ValidRecords(resp[1].body.json.o.items)
           \/ result[1] = Empty
      ELSE IF ValidRecords(resp[1].body.json)
        THEN SameItems(result[1], resp[1].body.json)
        ELSE result[1] = Empty

\* `items` held a valid record and one without its id: nothing came back
C18_Witness ==
  /\ ReadInventory(1)
  /\ resp[1].body.json.t = "obj"
  /\ "items" \in DOMAIN resp[1].body.json.o
  /\ resp[1].body.json.o.items.t = "arr"
  /\ Len(resp[1].body.json.o.items.a) = 2
  /\ Accepted(InventoryItem, resp[1].body.json.o.items.a[1])
  /\ ~Accepted(InventoryItem, resp[1].body.json.o.items.a[2])
  /\ result[1] = Empty

\* the health check of invocation i was answered with a body that decodes
\* as a HealthStatus
HealthDecoded(i) ==
  /\ resp[i].kind = "body" /\ "json" \in DOMAIN resp[i].body
  /\ Conforms(TStruct("HealthStatus"), resp[i].body.json)

\* components["database"]["status"] of the health body is "healthy"
DatabaseIsHealthy(j) ==
  /\ j.t = "obj"
  /\ "database" \in DOMAIN j.o.components.o
  /\ j.o.components.o.database.t = "obj"
  /\ "status" \in DOMAIN j.o.components.o.database.o
  /\ j.o.components.o.database.o.status = JStr(healthy)

\* C19: the result of get_system_status is a function of the health-check
\* outcome: api_connected is true exactly when the health check returned a
\* response that decoded as a health status, database_healthy exactly when
\* in addition components["database"]["status"] is the string "healthy"
\* (so database_healthy implies api_connected), and on success last_check,
\* version and environment are those of the health response.
C19_StatusFollowsHealthCheck ==
  (cmd[1] = "get_system_status" /\ pc[1] = "done") =>
    /\ result[1].ok
    /\ result[1].val.o.api_connected = JBool(HealthDecoded(1))
    /\ result[1].val.o.database_healthy
         = JBool(HealthDecoded(1) /\ DatabaseIsHealthy(resp[1].body.json))
    /\ result[1].val.o.database_healthy.b => result[1].val.o.api_connected.b
    /\ HealthDecoded(1) =>
         /\ result[1].val.o.last_check = resp[1].body.json.o.timestamp
         /\ result[1].val.o.version = resp[1].body.json.o.version
         /\ result[1].val.o.environment = resp[1].body.json.o.environment

\* a decoded health check with a healthy component that is not the database
C19_Witness ==
  /\ cmd[1] = "get_system_status" /\ pc[1] = "done"
  /\ HealthDecoded(1)
  /\ "redis" \in DOMAIN resp[1].body.json.o.components.o
  /\ result[1].val.o.api_connected = JBool(TRUE)
  /\ result[1].val.o.database_healthy = JBool(FALSE)
  /\ result[1].val.o.version = resp[1].body.json.o.version

\* the letters of "select" in either case
SelectLetters ==
  <<{"s", "S"}, {"e", "E"}, {"l", "L"}, {"e", "E"}, {"c", "C"}, {"t", "T"}>>

\* after white space only, the text goes on with "select" in any case
BeginsWithSelect(q) ==
  \E k \in 0..Len(q) :
    /\ \A i \in 1..k : q[i] \in White
    /\ Len(q) >= k + 6
    /\ \A i \in 1..6 : q[k + i] \in SelectLetters[i]

\* C20: for every query whose trimmed, lower-cased text begins with
\* "select", whatever follows, run_database_query sends exactly one POST
\* to the admin query endpoint, and its body carries the query as it was
\* given, neither trimmed nor lower-cased.
C20_SelectSentVerbatim ==
  (cmd[1] = "run_database_query" /\ BeginsWithSelect(arg[1].query))
  => /\ Len(sent[1]) = 1
     /\ sent[1][1].verb = "POST"
     /\ sent[1][1].url = base_url \o <<"/api/v1/admin/query">>
     /\ sent[1][1].body = Some(JObj([query |-> JStr(arg[1].query)]))

\* a query in capitals, with white space before it and a second statement
\* after it, went out as it was given
C20_Witness ==
  /\ cmd[1] = "run_database_query"
  /\ arg[1].query = <<"\n", "\t", "S", "E", "L", "E", "C", "T",
                      ";", "d", "r", "o", "p">>
  /\ Len(sent[1]) = 1
  /\ sent[1][1].verb = "POST"
  /\ sent[1][1].body.v.o.query.s = arg[1].query

\* a listings command has read a JSON body in which data.listings is an
\* array
ReadListings(i) ==
  /\ cmd[i] \in {"get_stockx_listings", "get_alias_listings"}
  /\ pc[i] = "done"
  /\ resp[i].kind = "body" /\ "json" \in DOMAIN resp[i].body
  /\ HasListings(resp[i].body.json)

\* C21: when data.listings is an array, get_stockx_listings and
\* get_alias_listings return a collection of its length and in its order:
\* an element that is a JSON object becomes the map of that object's keys
\* and values, an element that is no object becomes the empty map and is
\* neither dropped nor an error.
C21_ListingsMapped ==
  ReadListings(1) =>
    /\ result[1].ok
    /\ result[1].val.t = "arr"
    /\ Len(result[1].val.a) = Len(resp[1].body.json.o.data.o.listings.a)
    /\ \A n \in 1..Len(resp[1].body.json.o.data.o.listings.a) :
         /\ result[1].val.a[n].t = "obj"
         /\ IF resp[1].body.json.o.data.o.listings.a[n].t = "obj"
              THEN result[1].val.a[n].o
                     = resp[1].body.json.o.data.o.listings.a[n].o
              ELSE DOMAIN result[1].val.a[n].o = {}

\* three listings, the second a string: three maps, the second empty
C21_Witness ==
  /\ ReadListings(1)
  /\ Len(resp[1].body.json.o.data.o.listings.a) = 3
  /\ resp[1].body.json.o.data.o.listings.a[2].t = "str"
  /\ result[1].ok /\ Len(result[1].val.a) = 3
  /\ DOMAIN result[1].val.a[2].o = {}
  /\ result[1].val.a[1].o.id = JInt(1)
  /\ result[1].val.a[3].o.id = JInt(2)

\* get_dashboard_metrics has read a body that decodes as the dashboard of
\* the backend
DashboardDecoded(i) ==
  /\ cmd[i] = "get_dashboard_metrics" /\ pc[i] = "done"
  /\ resp[i].kind = "body" /\ "json" \in DOMAIN resp[i].body
  /\ Conforms(TStruct("ApiDashboardMetrics"), resp[i].body.json)

\* C22: for every dashboard response that decodes, get_dashboard_metrics
\* returns total_inventory_value equal to inventory.total_inventory_value,
\* active_listings equal to inventory.items_listed and recent_transactions
\* equal to sales.recent_activity, while monthly_sales, profit_margin and
\* pending_imports are 0 whatever the response holds.
C22_DashboardMetrics ==
  DashboardDecoded(1) =>
    /\ result[1].ok
    /\ result[1].val.o.total_inventory_value.x
         = Halves(resp[1].body.json.o.inventory.o.total_inventory_value)
    /\ result[1].val.o.active_listings
         = resp[1].body.json.o.inventory.o.items_listed
    /\ result[1].val.o.recent_transactions
         = resp[1].body.json.o.sales.o.recent_activity
    /\ result[1].val.o.monthly_sales = JFloat(0)
    /\ result[1].val.o.profit_margin = JFloat(0)
    /\ result[1].val.o.pending_imports = JInt(0)

\* a dashboard with 8 listings, 3 items in stock and a value of 9
C22_Witness ==
  /\ DashboardDecoded(1)
  /\ resp[1].body.json.o.inventory.o.items_listed = JInt(8)
  /\ resp[1].body.json.o.inventory.o.items_in_stock = JInt(3)
  /\ result[1].ok
  /\ result[1].val.o.active_listings = JInt(8)
  /\ result[1].val.o.total_inventory_value = JFloat(18)

\* a dashboard that brings monthly_sales 2.5 with it: the result says 0
C22_ZeroWitness ==
  /\ DashboardDecoded(1)
  /\ "monthly_sales" \in DOMAIN resp[1].body.json.o
  /\ result[1].val.o.monthly_sales = JFloat(0)

\* the four methods http_request knows
Verbs ==
  {<<"G", "E", "T">>, <<"P", "O", "S", "T">>, <<"P", "U", "T">>,
   <<"D", "E", "L", "E", "T", "E">>}

\* the method is one of the four, in letters of either case
KnownMethod(method) ==
  \E v \in Verbs :
    /\ Len(method) = Len(v)
    /\ \A k \in 1..Len(v) : method[k] \in {v[k], LowerOf[v[k]]}

\* where the claim has http_request send: the url as given when it starts
\* with "http", the base address followed by it otherwise
FullUrl(url) ==
  IF Len(url) >= 4 /\ SubSeq(url, 1, 4) = <<"h", "t", "t", "p">>
    THEN url
    ELSE <<"h", "t", "t", "p", ":", "/", "/", "l", "o", "c", "a", "l",
           "h", "o", "s", "t", ":", "8", "0", "0", "0">> \o url

\* C23 (as amended): http_request turns away every method that,
\* upper-cased, is none of GET, POST, PUT, DELETE with the error
\* "Unsupported HTTP method" and sends nothing; for an accepted method it
\* sends exactly one request, to the url as given when that starts with
\* "http" and to the base address followed by the url otherwise, provided
\* that text parses as a URL; when it does not, no request is sent and the
\* command returns "Request failed".
C23_HttpRequestMethodAndUrl ==
  (cmd[1] = "http_request") =>
    IF ~KnownMethod(arg[1].method)
      THEN /\ pc[1] = "done"
           /\ result[1] = Err(<<"Unsupported HTTP method">>)
           /\ sent[1] = <<>>
    ELSE IF HostPort(FullUrl(arg[1].url)).some
      THEN /\ Len(sent[1]) = 1
           /\ sent[1][1].url = FullUrl(arg[1].url)
           /\ sent[1][1].verb \in Verbs
           /\ KnownMethod(sent[1][1].verb)
           /\ Len(sent[1][1].verb) = Len(arg[1].method)
    ELSE /\ pc[1] = "done"
         /\ sent[1] = <<>>
         /\ ~result[1].ok
         /\ result[1].err[1] = "Request failed: "

\* "Post" to "/health": one POST to http://localhost:8000/health
C23_Witness ==
  /\ cmd[1] = "http_request"
  /\ arg[1].method = <<"P", "o", "s", "t">>
  /\ arg[1].url = <<"/", "h", "e", "a", "l", "t", "h">>
  /\ Len(sent[1]) = 1
  /\ sent[1][1].verb = <<"P", "O", "S", "T">>
  /\ sent[1][1].url = base_url \o arg[1].url

\* C23 (as stated): for an accepted method http_request sends exactly one
\* request, to the url verbatim when it starts with "http" and otherwise to
\* the base address followed by the url; any other method is turned away
\* with "Unsupported HTTP method" before a request is sent.
C23_OneRequestForAcceptedMethod ==
  (cmd[1] = "http_request") =>
    IF ~KnownMethod(arg[1].method)
      THEN /\ pc[1] = "done"
           /\ result[1] = Err(<<"Unsupported HTTP method">>)
           /\ sent[1] = <<>>
      ELSE /\ Len(sent[1]) = 1
           /\ sent[1][1].url = FullUrl(arg[1].url)

\* the client methods that take an optional argument for their query string
OptionalQuery ==
  {"get_inventory_items", "get_market_trends", "export_data_csv",
   "start_product_enrichment", "get_stockx_listings", "get_alias_listings",
   "simulate_auto_listing", "get_predictive_insights",
   "get_inventory_forecasts", "get_restock_recommendations"}

\* the pieces of a URL that begin its query string
QueryMarks ==
  {"?", "?limit=", "?days_back=", "?max_items=", "?days_ahead=",
   "?horizon_days=", "?min_roi=", "?strategy="}

HasQuery(url) == \E k \in 1..Len(url) : url[k] \in QueryMarks

\* the command was given at least one value that goes into the query string
ParamPresent(c, a) ==
  CASE c \in {"get_inventory_items"} -> a.limit.some
    [] c = "get_market_trends" -> a.days_back.some
    [] c = "export_data_csv" -> a.filters.some /\ DOMAIN a.filters.v # {}
    [] c = "start_product_enrichment" ->
         a.product_ids.some /\ a.product_ids.v # <<>>
    [] c \in {"get_stockx_listings", "get_alias_listings"} ->
         a.status.some \/ a.limit.some
    [] OTHER -> TRUE

\* the URL of the command's endpoint with nothing behind it
Endpoint(c) == base_url \o <<ApiClient[CommandTable[c].client].path>>

\* status before limit, joined by "&"
StatusThenLimit(a) ==
  IF a.status.some /\ a.limit.some
    THEN <<"?", "status=">> \o a.status.v
           \o <<"&", "limit=", ToString(a.limit.v)>>
  ELSE IF a.status.some THEN <<"?", "status=">> \o a.status.v
  ELSE IF a.limit.some THEN <<"?", "limit=", ToString(a.limit.v)>>
  ELSE <<>>

\* C24: in every client operation with optional query parameters the URL
\* gets a query string exactly when a parameter value is there: an export
\* filter map that is present but empty and an enrichment id list that is
\* present but empty give the URL of an absent argument, and the listing
\* URLs carry status before limit, joined by "&", with "?" iff one of them
\* is given.
C24_QueryStringIffParam ==
  (cmd[1] \in OptionalQuery /\ Len(sent[1]) = 1) =>
    /\ HasQuery(sent[1][1].url) <=> ParamPresent(cmd[1], arg[1])
    /\ (cmd[1] = "export_data_csv" /\ ~ParamPresent(cmd[1], arg[1]))
         => sent[1][1].url = Endpoint(cmd[1]) \o arg[1].table
    /\ (cmd[1] = "start_product_enrichment"
           /\ ~ParamPresent(cmd[1], arg[1]))
         => sent[1][1].url = Endpoint(cmd[1])
    /\ cmd[1] \in {"get_stockx_listings", "get_alias_listings"}
         => sent[1][1].url = Endpoint(cmd[1]) \o StatusThenLimit(arg[1])

\* an export with a filter map that is there but empty asked for the bare
\* URL
C24_Witness ==
  /\ cmd[1] = "export_data_csv"
  /\ arg[1].filters.some /\ DOMAIN arg[1].filters.v = {}
  /\ Len(sent[1]) = 1
  /\ ~HasQuery(sent[1][1].url)
  /\ sent[1][1].url = Endpoint(cmd[1]) \o arg[1].table

\* listings asked for with a status and a limit
C24_BothWitness ==
  /\ cmd[1] = "get_stockx_listings"
  /\ arg[1].status.some /\ arg[1].limit.some
  /\ Len(sent[1]) = 1
  /\ sent[1][1].url = Endpoint(cmd[1]) \o StatusThenLimit(arg[1])

\* the invocations in slots i and j are of the same command with equal
\* arguments and got equal answers
SameCall(i, j) ==
  /\ pc[i] = "done" /\ pc[j] = "done"
  /\ cmd[i] = cmd[j] /\ arg[i] = arg[j] /\ resp[i] = resp[j]

\* both results are system statuses that differ in last_check at most
SameButLastCheck(a, b) ==
  /\ a.ok /\ b.ok
  /\ [a.val.o EXCEPT !.last_check = JNull]
       = [b.val.o EXCEPT !.last_check = JNull]

\* C25 (under SpecPair): two invocations of the same command with equal
\* arguments that get equal answers return equal results, whatever ran
\* before or between them and whenever they ran; the one exception is the
\* last_check that get_system_status stamps when its health check fails.
C25_Deterministic ==
  \A i, j \in Slots :
    SameCall(i, j) =>
      IF cmd[i] = "get_system_status" /\ ~HealthDecoded(i)
        THEN SameButLastCheck(result[i], result[j])
        ELSE result[i] = result[j]

\* two inventory requests with the same limit, the second begun after the
\* clock moved on, got the same answer and returned the same items
C25_Witness ==
  /\ SameCall(1, 2)
  /\ cmd[1] = "get_inventory_items" /\ arg[1].limit = Some(10)
  /\ started[1] < started[2]
  /\ resp[1].kind = "body" /\ resp[1].status = 200
  /\ result[1].ok /\ Len(result[1].val.a) = 1
  /\ result[2] = result[1]

\* two system statuses whose health check failed alike, stamped at
\* different times
C25_ExceptionWitness ==
  /\ SameCall(1, 2)
  /\ cmd[1] = "get_system_status" /\ resp[1] = SendError
  /\ result[1] # result[2]
  /\ SameButLastCheck(result[1], result[2])

\* C25 without its exception: equal calls give equal results.
C25_NoException ==
  \A i, j \in Slots : SameCall(i, j) => result[i] = result[j]

=============================================================================
